---------------------------- MODULE Spec2Model ----------------------------
(***************************************************************************)
(* A model of minitox.c: the asynchronous line editor (arepl_readline and  *)
(* the byte loop of repl_iterate), the combined contact index macros, and  *)
(* the command dispatcher with the friend/group/request lists.             *)
(*                                                                         *)
(* Four specifications share the module:                                   *)
(*   SpecEditor   bytes fed to arepl_readline through repl_iterate's loop  *)
(*   SpecMoves    the editor under inserts, C-b and C-f only, beside a     *)
(*                reference editor                                         *)
(*   SpecIndex    GEN_INDEX / INDEX_TO_NUM / INDEX_TO_TYPE on uint32_t     *)
(*   SpecRepl     completed lines dispatched by repl_iterate, interleaved  *)
(*                with the tox callbacks                                   *)
(***************************************************************************)
EXTENDS Integers, Sequences, FiniteSets, TLC

(***************************************************************************)
(* Bounds of the model.                                                    *)
(***************************************************************************)
\* LINE_MAX_SIZE is 512 in the source (line 44); the model keeps the code's
\* arithmetic and scales the capacity down.
LINE_MAX_SIZE == 3

(***************************************************************************)
(* Bytes.  A byte is its character code.                                   *)
(***************************************************************************)
NUL      == 0
CTRL_A   == 1
CTRL_B   == 2
CTRL_D   == 4
CTRL_E   == 5
CTRL_F   == 6
CTRL_H   == 8
NEWLINE  == 10
CTRL_K   == 11
CTRL_U   == 21
CTRL_W   == 23
ESC      == 27
SPACE    == 32
CHAR_C   == 67
CHAR_D   == 68
BRACKET  == 91
DEL      == 127

\* The bytes of the model that arepl_readline stores in the buffer: its
\* `default` case, and 'D' and 'C', which fall through to it.
Printable == {NUL, SPACE, CHAR_C, CHAR_D, BRACKET}

\* The characters of the insert / move-left / move-right scenario:
\* 'a', 'b' and 'X'.
TextByte == {97, 98, 88}

\* What a read outside the allocated buffer yields: no byte of the model.
Indeterminate == -1

Min(x, y) == IF x <= y THEN x ELSE y

(***************************************************************************)
(* struct AsyncREPL.  line is the malloc'ed buffer of sz bytes, indexed    *)
(* from 0 as in C.  ub records that an access outside line[0 .. sz-1] was  *)
(* made: the behaviour is undefined from there on and the model stops.     *)
(***************************************************************************)
VARIABLES
    line,        \* async_repl->line
    nbuf,        \* async_repl->nbuf
    nstack,      \* async_repl->nstack
    escaped,     \* static uint32_t escaped of arepl_readline
    ub,          \* an out-of-bounds access of async_repl->line has happened
    ret,         \* what arepl_readline returned for the last byte
    completed,   \* what snprintf left in repl_iterate's line[] (when ret # 0)
    dispatched,  \* line[] after the trailing byte is removed
    exited,      \* exit(0) was called
    emitted,     \* what arepl_reprint wrote to stdout in this step
    refText,     \* reference editor: the text
    refCur,      \* reference editor: the cursor offset
    ninserted,   \* reference editor: number of characters inserted
    typed,       \* the bytes given to arepl_readline so far, in order
    phase,       \* index arithmetic: "idle", "input", "encoded", "decoded"
    num,         \* index arithmetic: the session number given to GEN_INDEX
    kind,        \* index arithmetic: the TALK_TYPE given to GEN_INDEX
    index,       \* index arithmetic: GEN_INDEX(num, kind)
    decNum,      \* index arithmetic: INDEX_TO_NUM(index)
    decKind,     \* index arithmetic: INDEX_TO_TYPE(index)
    friends,     \* struct Friend *friends, the head of the list first
    groups,      \* struct Group *groups, the head of the list first
    requests,    \* struct Request *requests, the head of the list first
    TalkingTo,   \* uint32_t TalkingTo
    prompt,      \* async_repl->prompt
    event,       \* what this round of main's loop did: "line", a callback's
                 \* name, or "idle" when the round has not done anything yet
    cmdline,     \* the line repl_iterate worked on in the last step
    report,      \* the WARNs and ERRORs the last step printed
    invoked,     \* the handler the last step called, "none" if none
    saves,       \* how often the last step called update_savedata_file
    sent,        \* the message the last step handed to the backend
    printed,     \* the history entries the last step printed
    tokenized,   \* tokens[] as repl_iterate's token loop left it
    answer,      \* what the backend answered to the last step's calls
    delivered,   \* the arguments of the message callback of the last step
    issued,      \* the largest request id given out so far
    steps,       \* number of lines and callbacks so far
    pushed,      \* every message genmsg was given, the first one first
    chain,       \* one history as genmsg links it: *pp and the nodes malloc'ed
    toxFriends,  \* the friend numbers the backend (Tox *tox) holds
    toxGroups,   \* the conference numbers the backend holds
    msecs,       \* uint32_t msecs of main
    at,          \* where main's loop is: "check", "iterate" or "sleep"
    iterated,    \* calls of tox_iterate in this round of the loop
    drained,     \* this round has called repl_iterate and it returned
    waited       \* rounds begun since the last call of repl_iterate

editorVars == <<line, nbuf, nstack, escaped, ub, ret, completed, dispatched,
                emitted,
                exited>>
refVars == <<refText, refCur, ninserted, typed>>
indexVars == <<phase, num, kind, index, decNum, decKind>>
sessionVars == <<friends, groups, requests, TalkingTo>>
outputVars == <<event, cmdline, report, invoked, saves, sent, printed,
                tokenized, answer, delivered>>
backendVars == <<toxFriends, toxGroups>>
loopVars == <<msecs, at, iterated, drained, waited>>
replVars == <<chain, prompt, sessionVars, outputVars, issued, steps, pushed, backendVars,
              loopVars>>

(***************************************************************************)
(* uint32_t.  TLC's integers stop at 2^31 - 1, so a uint32_t is held as    *)
(* two 16-bit halves and the arithmetic of the index macros is done on the *)
(* halves, modulo 2^32 as in C.                                            *)
(***************************************************************************)
Half == 2^16

U32(n) == [hi |-> n \div Half, lo |-> n % Half]

\* (u * k + t) modulo 2^32, for small k and t.
U32MulAdd(u, k, t) ==
    LET l == u.lo * k + t
    IN  [hi |-> (u.hi * k + l \div Half) % Half, lo |-> l % Half]

\* u / k and u % k, for small k.
U32Div(u, k) ==
    [hi |-> u.hi \div k, lo |-> ((u.hi % k) * Half + u.lo) \div k]
U32Mod(u, k) == ((u.hi % k) * Half + u.lo) % k

\* enum TALK_TYPE { TALK_TYPE_FRIEND, TALK_TYPE_GROUP, TALK_TYPE_COUNT,
\*                  TALK_TYPE_NULL = UINT32_MAX };
TALK_TYPE_FRIEND == 0
TALK_TYPE_GROUP  == 1
TALK_TYPE_COUNT  == 2
TALK_TYPE_NULL   == [hi |-> Half - 1, lo |-> Half - 1]

\* #define GEN_INDEX(num,type) (num * TALK_TYPE_COUNT + type)
GEN_INDEX_NoScale(n, type) == U32MulAdd(n, 1, type)
GEN_INDEX(n, type) == U32MulAdd(n, TALK_TYPE_COUNT, type)
\* #define INDEX_TO_TYPE(idx) (idx % TALK_TYPE_COUNT)
INDEX_TO_TYPE_AlwaysFriend(idx) == TALK_TYPE_FRIEND
INDEX_TO_TYPE(idx) == U32Mod(idx, TALK_TYPE_COUNT)
\* #define INDEX_TO_NUM(idx)  (idx / TALK_TYPE_COUNT)
INDEX_TO_NUM(idx) == U32Div(idx, TALK_TYPE_COUNT)

sz == LINE_MAX_SIZE

\* The editor as one value, for the operators below.
AREPL == [line |-> line, nbuf |-> nbuf, nstack |-> nstack,
          escaped |-> escaped, ub |-> ub]

\* arepl->line[i] as an rvalue.
Load(a, i) == IF i \in 0..(sz - 1) THEN a.line[i] ELSE Indeterminate

\* arepl->line[i] = v.
Store(a, i, v) ==
    IF i \in 0..(sz - 1) THEN [a EXCEPT !.line[i] = v]
    ELSE [a EXCEPT !.ub = TRUE]

\* A move to the left that forgets to carry the byte over.
AREPL_CURSOR_LEFT_NoCopy(a) ==
    [a EXCEPT !.nbuf = a.nbuf - 1, !.nstack = a.nstack + 1]

\* line[sz - (++nstack)] = line[--nbuf]
AREPL_CURSOR_LEFT(a) ==
    LET nb == a.nbuf - 1
        ns == a.nstack + 1
    IN  Store([a EXCEPT !.nbuf = nb, !.nstack = ns], sz - ns, Load(a, nb))

\* A move to the right that decrements nstack before using it:
\* line[nbuf++] = line[sz - (--nstack)]
AREPL_CURSOR_RIGHT_PreDecrement(a) ==
    Store([a EXCEPT !.nbuf = a.nbuf + 1, !.nstack = a.nstack - 1],
          a.nbuf, Load(a, sz - (a.nstack - 1)))

\* line[nbuf++] = line[sz - (nstack--)]
AREPL_CURSOR_RIGHT(a) ==
    Store([a EXCEPT !.nbuf = a.nbuf + 1, !.nstack = a.nstack - 1],
          a.nbuf, Load(a, sz - a.nstack))

\* while (nbuf > 0) _AREPL_CURSOR_LEFT();
RECURSIVE MoveToStart(_)
MoveToStart(a) ==
    IF a.nbuf > 0 THEN MoveToStart(AREPL_CURSOR_LEFT(a)) ELSE a

\* while (nstack > 0) _AREPL_CURSOR_RIGHT();
RECURSIVE MoveToEnd(_)
MoveToEnd(a) ==
    IF a.nstack > 0 THEN MoveToEnd(AREPL_CURSOR_RIGHT(a)) ELSE a

PopSpaces_Skipped(a) == a

\* while (nbuf>0 && line[nbuf-1] == ' ') nbuf--;
RECURSIVE PopSpaces(_)
PopSpaces(a) ==
    IF a.nbuf > 0 /\ Load(a, a.nbuf - 1) = SPACE
    THEN PopSpaces([a EXCEPT !.nbuf = a.nbuf - 1]) ELSE a

\* while (nbuf>0 && line[nbuf-1] != ' ') nbuf--;
RECURSIVE PopWord(_)
PopWord(a) ==
    IF a.nbuf > 0 /\ Load(a, a.nbuf - 1) # SPACE
    THEN PopWord([a EXCEPT !.nbuf = a.nbuf - 1]) ELSE a

\* default: line[nbuf++] = c;   (no test of nbuf against sz)
InsertByte(a, ch) == Store([a EXCEPT !.nbuf = a.nbuf + 1], a.nbuf, ch)

\* escaped == 3 && arepl->nbuf >= 1 && arepl->line[arepl->nbuf-1] == '['
ArrowRecognised(a) ==
    a.escaped = 3 /\ a.nbuf >= 1 /\ Load(a, a.nbuf - 1) = BRACKET

\* case 'D': case 'C':
ArrowLetter(a, ch) ==
    IF ArrowRecognised(a)
    THEN LET r == [a EXCEPT !.nbuf = a.nbuf - 1]
         IN  IF ch = CHAR_D /\ r.nbuf > 0 THEN AREPL_CURSOR_LEFT(r)
             ELSE IF ch = CHAR_C /\ r.nstack > 0 THEN AREPL_CURSOR_RIGHT(r)
             ELSE r
    ELSE InsertByte(a, ch)

\* printf's "%.*s": at most prec bytes from line[from], stopping at a NUL.
RECURSIVE PrecisionString(_, _, _)
PrecisionString(a, from, prec) ==
    IF prec <= 0 \/ Load(a, from) = NUL THEN <<>>
    ELSE <<Load(a, from)>> \o PrecisionString(a, from + 1, prec - 1)

\* What "%.*s%.*s\n" formats: head, tail, newline.
Formatted(a) ==
    PrecisionString(a, 0, a.nbuf)
        \o PrecisionString(a, sz - a.nstack, a.nstack)
        \o <<NEWLINE>>

\* snprintf(line, size, ...): at most size-1 bytes are stored, the length of
\* the whole formatted text is returned.
Snprintf(a, size) ==
    LET f == Formatted(a)
    IN  [ret |-> Len(f), buf |-> SubSeq(f, 1, Min(Len(f), size - 1))]

\* if (escaped>0) escaped++;  The counter is a uint32_t that is only tested
\* for > 0 and == 3: every value above 3 behaves alike, so the model keeps 4
\* for all of them.
BumpEscaped(e) == IF e > 0 THEN Min(e + 1, 4) ELSE e

\* arepl_readline(arepl, c, line, sz): the editor after the byte, the return
\* value and the bytes left in the caller's buffer (<<>> when untouched).
arepl_readline(a, ch, size) ==
    IF ch = ESC
    THEN [a |-> [a EXCEPT !.escaped = 1], ret |-> 0, buf |-> <<>>]
    ELSE LET e == [a EXCEPT !.escaped = BumpEscaped(a.escaped)]
             same(x) == [a |-> x, ret |-> 0, buf |-> <<>>]
         IN  CASE ch = NEWLINE ->
                    LET s == Snprintf(e, size)
                    IN  [a |-> [e EXCEPT !.nbuf = 0, !.nstack = 0],
                         ret |-> s.ret, buf |-> s.buf]
               [] ch \in {CTRL_H, DEL} ->
                    same(IF e.nbuf > 0 THEN [e EXCEPT !.nbuf = e.nbuf - 1] ELSE e)
               [] ch = CTRL_U -> same([e EXCEPT !.nbuf = 0])
               [] ch = CTRL_K -> same([e EXCEPT !.nstack = 0])
               [] ch = CTRL_A -> same(MoveToStart(e))
               [] ch = CTRL_E -> same(MoveToEnd(e))
               [] ch = CTRL_B ->
                    same(IF e.nbuf > 0 THEN AREPL_CURSOR_LEFT(e) ELSE e)
               [] ch = CTRL_F ->
                    same(IF e.nstack > 0 THEN AREPL_CURSOR_RIGHT(e) ELSE e)
               [] ch = CTRL_W -> same(PopWord(PopSpaces(e)))
               [] ch \in {CHAR_D, CHAR_C} -> same(ArrowLetter(e, ch))
               [] OTHER -> same(InsertByte(e, ch))

\* line[--len] = '\0' after int len = strlen(line).
StripLast(s) == SubSeq(s, 1, Len(s) - 1)

(***************************************************************************)
(* The logical contents of the editor.                                     *)
(***************************************************************************)
HeadBytes(a) == [i \in 1..a.nbuf |-> Load(a, i - 1)]
TailBytes(a) == [i \in 1..a.nstack |-> Load(a, sz - a.nstack + i - 1)]
Logical(a) == HeadBytes(a) \o TailBytes(a)

(***************************************************************************)
(* The reference editor of the insert / move-left / move-right sequences:  *)
(* a text and a cursor offset.                                             *)
(***************************************************************************)
RefInsert(text, cur, ch) ==
    SubSeq(text, 1, cur) \o <<ch>> \o SubSeq(text, cur + 1, Len(text))

(***************************************************************************)
(* SpecEditor: repl_iterate's loop over the bytes read, up to the point    *)
(* where a completed line is handed to the dispatcher.                     *)
(***************************************************************************)
\* setup_arepl: nbuf = nstack = 0, line = malloc(LINE_MAX_SIZE) with
\* indeterminate contents, here any bytes of the set given.
InitAREPL(bytes) ==
    /\ line \in [0..(sz - 1) -> bytes]
    /\ nbuf = 0
    /\ nstack = 0
    /\ escaped = 0
    /\ ub = FALSE
    /\ ret = 0
    /\ completed = <<>>
    /\ dispatched = <<>>
    /\ exited = FALSE
    /\ emitted = <<>>

InitRef ==
    /\ refText = <<>>
    /\ refCur = 0
    /\ ninserted = 0
    /\ typed = <<>>

\* One round of for_1 in repl_iterate for a byte other than C-d: the call of
\* arepl_readline and, when it returns non-zero, the removal of the trailing
\* byte of line[].
Feed(ch) ==
    /\ ~ub /\ ~exited
    /\ LET r == arepl_readline(AREPL, ch, LINE_MAX_SIZE)
       IN  /\ line' = r.a.line
           /\ nbuf' = r.a.nbuf
           /\ nstack' = r.a.nstack
           /\ escaped' = r.a.escaped
           /\ ub' = r.a.ub
           /\ ret' = r.ret
           /\ completed' = r.buf
           /\ dispatched' = IF r.ret # 0 THEN StripLast(r.buf) ELSE <<>>
    /\ emitted' = <<>>
    /\ UNCHANGED <<exited, indexVars, replVars>>

\* if (c == '\004') exit(0);
KeyEndOfInput ==
    /\ ~ub /\ ~exited
    /\ exited' = TRUE
    /\ ret' = 0
    /\ completed' = <<>>
    /\ dispatched' = <<>>
    /\ emitted' = <<>>
    /\ UNCHANGED <<line, nbuf, nstack, escaped, ub, refVars, indexVars,
                   replVars>>

\* arepl_reprint(arepl): what goes to stdout, in order: the code that
\* erases the line, the prompt, what "%.*s" prints of the head and of the
\* tail, and "\033[%dD" for nstack columns.  The prompt is kept as one item.
arepl_reprint(a) ==
    <<"CODE_ERASE_LINE", "prompt">>
      \o (IF a.nbuf > 0 THEN PrecisionString(a, 0, a.nbuf) ELSE <<>>)
      \o (IF a.nstack > 0
          THEN PrecisionString(a, sz - a.nstack, a.nstack)
                 \o <<[cursor_left |-> a.nstack]>>
          ELSE <<>>)

\* The end of repl_iterate, when read() has no more bytes: arepl_reprint.
Reprint ==
    /\ ~ub /\ ~exited
    /\ emitted' = arepl_reprint(AREPL)
    /\ UNCHANGED <<line, nbuf, nstack, escaped, ub, ret, completed, dispatched,
                   exited, refVars, indexVars, replVars>>

KeyEscape      == Feed(ESC) /\ UNCHANGED refVars
KeyNewline     == Feed(NEWLINE) /\ UNCHANGED refVars
KeyBackspace   == (\E ch \in {CTRL_H, DEL} : Feed(ch)) /\ UNCHANGED refVars
KeyClear       == Feed(CTRL_U) /\ UNCHANGED refVars
KeyKill        == Feed(CTRL_K) /\ UNCHANGED refVars
KeyHome        == Feed(CTRL_A) /\ UNCHANGED refVars
KeyEnd         == Feed(CTRL_E) /\ UNCHANGED refVars
KeyLeft        == Feed(CTRL_B) /\ UNCHANGED refVars
KeyRight       == Feed(CTRL_F) /\ UNCHANGED refVars
KeyDeleteWord  == Feed(CTRL_W) /\ UNCHANGED refVars
KeyArrowLetter == (\E ch \in {CHAR_D, CHAR_C} : Feed(ch)) /\ UNCHANGED refVars
KeyDefault     ==
    (\E ch \in Printable \ {CHAR_D, CHAR_C} : Feed(ch)) /\ UNCHANGED refVars

NextEditor ==
    \/ KeyEscape
    \/ KeyNewline
    \/ KeyBackspace
    \/ KeyClear
    \/ KeyKill
    \/ KeyHome
    \/ KeyEnd
    \/ KeyLeft
    \/ KeyRight
    \/ KeyDeleteWord
    \/ KeyArrowLetter
    \/ KeyDefault
    \/ KeyEndOfInput

vars == <<editorVars, refVars, indexVars, replVars>>

\* The index arithmetic at rest, for the specifications that do not use it.
IdleIndex ==
    /\ phase = "idle"
    /\ num = U32(0)
    /\ kind = TALK_TYPE_FRIEND
    /\ index = U32(0)
    /\ decNum = U32(0)
    /\ decKind = TALK_TYPE_FRIEND

\* No message sent.
\* The prompts: the format and the session whose name or title fills it.
\* #define CMD_PROMPT   CMD_PROMPT_COLOR "> " RESET_COLOR
CMD_PROMPT == [fmt |-> "> ", of |-> U32(0)]
\* #define FRIEND_TALK_PROMPT  CMD_PROMPT_COLOR "%-.12s << " RESET_COLOR
FRIEND_TALK_PROMPT(n) == [fmt |-> "%-.12s << ", of |-> n]
\* #define GROUP_TALK_PROMPT  CMD_PROMPT_COLOR "%-.12s <<< " RESET_COLOR
GROUP_TALK_PROMPT(n) == [fmt |-> "%-.12s <<< ", of |-> n]

NoMessage == [to |-> "none", number |-> U32(0), text |-> <<>>]

\* The globals of the sessions as they are defined, before main() runs, and
\* nothing printed yet.
InitGlobals ==
    /\ groups = <<>>
    /\ requests = <<>>
    /\ TalkingTo = TALK_TYPE_NULL
    /\ prompt = CMD_PROMPT
    /\ event = "idle"
    /\ cmdline = <<>>
    /\ report = <<>>
    /\ invoked = "none"
    /\ saves = 0
    /\ sent = NoMessage
    /\ printed = <<>>
    /\ tokenized = <<>>
    /\ answer = [ok |-> TRUE, ok2 |-> TRUE, number |-> U32(0)]
    /\ delivered = [number |-> U32(0), peer_number |-> 0, ours |-> FALSE,
                    type |-> "none", message |-> <<>>]
    /\ issued = 0
    /\ steps = 0
    /\ pushed = <<>>
    /\ chain = [head |-> 0, nodes |-> <<>>]
    /\ toxGroups = {}
    /\ msecs = 0
    /\ at = "check"
    /\ iterated = 0
    /\ drained = FALSE
    /\ waited = 0

\* The sessions at rest, for the specifications that do not use them.
IdleRepl == InitGlobals /\ friends = <<>> /\ toxFriends = {}

\* The editor as setup_arepl leaves it; line[] comes from malloc and holds
\* any bytes.
InitEditor == InitAREPL(Printable) /\ InitRef /\ IdleIndex /\ IdleRepl

SpecEditor == InitEditor /\ [][NextEditor]_vars

(***************************************************************************)
(* SpecRedraw: characters typed, the cursor moved left, and the redraw at  *)
(* the end of a drain.                                                     *)
(***************************************************************************)
NextRedraw == KeyDefault \/ KeyLeft \/ Reprint

SpecRedraw == InitEditor /\ [][NextRedraw]_vars

(***************************************************************************)
(* SpecMoves: the editor fed only printable characters (while the buffer   *)
(* is not full), C-b and C-f, beside the reference editor.                 *)
(***************************************************************************)
MoveInsert ==
    \E ch \in TextByte :
        /\ nbuf + nstack < sz
        /\ Feed(ch)
        /\ refText' = RefInsert(refText, refCur, ch)
        /\ refCur' = refCur + 1
        /\ ninserted' = ninserted + 1
        /\ UNCHANGED typed

MoveLeft ==
    /\ Feed(CTRL_B)
    /\ refCur' = IF refCur > 0 THEN refCur - 1 ELSE refCur
    /\ UNCHANGED <<refText, ninserted, typed>>

MoveRight ==
    /\ Feed(CTRL_F)
    /\ refCur' = IF refCur < Len(refText) THEN refCur + 1 ELSE refCur
    /\ UNCHANGED <<refText, ninserted, typed>>

NextMoves == MoveInsert \/ MoveLeft \/ MoveRight

InitMoves == InitAREPL(TextByte) /\ InitRef /\ IdleIndex /\ IdleRepl

SpecMoves == InitMoves /\ [][NextMoves]_vars

(***************************************************************************)
(* Claims about the line editor.                                           *)
(***************************************************************************)
\* The editor after one byte.
After(a, ch) == arepl_readline(a, ch, LINE_MAX_SIZE).a

\* Same logical contents and same (nbuf, nstack).
SameEditor(x, y) ==
    /\ Logical(x) = Logical(y)
    /\ x.nbuf = y.nbuf
    /\ x.nstack = y.nstack

\* A byte that reaches `line[nbuf++] = c`: one of the default case, or a
\* 'D' or 'C' that is not taken for an arrow key.
LiteralInsert ==
    \/ KeyDefault
    \/ /\ KeyArrowLetter
       /\ ~ArrowRecognised([AREPL EXCEPT !.escaped = BumpEscaped(escaped)])

(***************************************************************************)
(* SpecArrow: the bytes of the arrow keys, ESC '[' 'C' and ESC '[' 'D',    *)
(* and C-f, given to arepl_readline in any order, MaxKeys of them; typed   *)
(* keeps the bytes given.                                                  *)
(***************************************************************************)
MaxKeys == 5

\* Of the indeterminate bytes of the buffer the arrow test tells '[' from
\* the others only.
InitArrow == InitAREPL({NUL, BRACKET}) /\ InitRef /\ IdleIndex /\ IdleRepl

TypeByte(ch) ==
    /\ Len(typed) < MaxKeys
    /\ Feed(ch)
    /\ typed' = Append(typed, ch)
    /\ UNCHANGED <<refText, refCur, ninserted>>

TypeEscape  == TypeByte(ESC)
TypeBracket == TypeByte(BRACKET)
TypeLetter  == \E ch \in {CHAR_C, CHAR_D} : TypeByte(ch)
TypeForward == TypeByte(CTRL_F)

TypeEndOfInput_ReachesEditor == TypeByte(CTRL_D)

\* The byte C-d in the batch: exit(0) before arepl_readline is called; the
\* rest of buf[] is never looked at.
TypeEndOfInput ==
    /\ Len(typed) < MaxKeys
    /\ ~ub /\ ~exited
    /\ exited' = TRUE
    /\ typed' = Append(typed, CTRL_D)
    /\ UNCHANGED <<line, nbuf, nstack, escaped, ub, ret, completed, dispatched,
                   emitted, refText, refCur, ninserted, indexVars, replVars>>

NextArrow ==
    TypeEscape \/ TypeBracket \/ TypeLetter \/ TypeForward \/ TypeEndOfInput

SpecArrow == InitArrow /\ [][NextArrow]_vars

\* C1: in every state reached by feeding bytes to the line editor from the
\* empty editor, 0 <= nbuf, 0 <= nstack and nbuf + nstack <= CAP, where CAP
\* is LINE_MAX_SIZE, the size of the line buffer.
C1_WithinCapacity ==
    /\ 0 <= nbuf
    /\ 0 <= nstack
    /\ nbuf + nstack <= LINE_MAX_SIZE

\* C2: when nbuf + nstack = CAP, one more default-case byte is a no-op:
\* nbuf, nstack and the bytes of the buffer are unchanged, and nothing is
\* written outside the buffer.
C2_FullBufferDropsInput ==
    [][(nbuf + nstack = LINE_MAX_SIZE /\ LiteralInsert)
          => (UNCHANGED <<line, nbuf, nstack>> /\ ~ub')]_vars

\* C3: the newline byte produces, in any reachable state, the line made of
\* the nbuf head bytes, then the nstack tail bytes read forward, then one
\* terminator; the dispatcher gets head ++ tail once the terminator is
\* removed; and the editor is left with nbuf = nstack = 0.
C3_CommitYieldsWholeLine ==
    [][KeyNewline
          => /\ completed' = Logical(AREPL) \o <<NEWLINE>>
             /\ dispatched' = Logical(AREPL)
             /\ nbuf' = 0
             /\ nstack' = 0]_vars

\* C4: along any sequence of printable inserts (into a buffer that is not
\* full), C-b and C-f, the editor agrees with the reference editor at every
\* step: head ++ tail is the reference text, nbuf the cursor offset and
\* nbuf + nstack the number of characters inserted.
C4_AgreesWithReference ==
    /\ Logical(AREPL) = refText
    /\ nbuf = refCur
    /\ nbuf + nstack = ninserted

\* 'a', 'b', move-left, 'X' has been fed: the line reads "aXb" with the
\* cursor after the 'X'.
C4_Scenario ==
    /\ Logical(AREPL) = <<97, 88, 98>>
    /\ nbuf = 2
    /\ nstack = 1
    /\ ninserted = 3

IndexSpan == 3

HalfSample == (0..IndexSpan) \cup ((Half - 1 - IndexSpan)..(Half - 1))
NumSample ==
    {[hi |-> h, lo |-> l] :
        h \in {0, 1, Half \div 2 - 1, Half \div 2, Half - 1}, l \in HalfSample}

\* num < 2^31
BelowTwoTo31(n) == n.hi < Half \div 2

\* The editor at rest, for the specifications that do not use it.
IdleEditor == InitAREPL({NUL}) /\ InitRef

InitIndex ==
    /\ IdleEditor
    /\ IdleRepl
    /\ phase = "input"
    /\ num \in NumSample
    /\ kind \in {TALK_TYPE_FRIEND, TALK_TYPE_GROUP}
    /\ index = U32(0)
    /\ decNum = U32(0)
    /\ decKind = TALK_TYPE_FRIEND

Encode ==
    /\ phase = "input"
    /\ phase' = "encoded"
    /\ index' = GEN_INDEX(num, kind)
    /\ UNCHANGED <<num, kind, decNum, decKind, editorVars, refVars, replVars>>

Decode ==
    /\ phase = "encoded"
    /\ phase' = "decoded"
    /\ decNum' = INDEX_TO_NUM(index)
    /\ decKind' = INDEX_TO_TYPE(index)
    /\ UNCHANGED <<num, kind, index, editorVars, refVars, replVars>>

NextIndex == Encode \/ Decode

SpecIndex == InitIndex /\ [][NextIndex]_vars

\* C6: for every num < 2^31 and kind FRIEND or GROUP, the index
\* GEN_INDEX(num, kind) decodes to num and kind again, in 32-bit unsigned
\* arithmetic, and no other pair (num, kind) with num < 2^31 has that index.
C6_IndexRoundTrips ==
    (phase = "decoded" /\ BelowTwoTo31(num)) =>
        /\ decNum = num
        /\ decKind = kind
        /\ \A n \in NumSample, k \in {TALK_TYPE_FRIEND, TALK_TYPE_GROUP} :
              (BelowTwoTo31(n) /\ GEN_INDEX(n, k) = index)
                  => (n = num /\ k = kind)

\* The largest number of the claim, 2^31 - 1, has been encoded as a group
\* (index 2^32 - 1) and decoded.
C6_LargestDecoded ==
    /\ phase = "decoded"
    /\ num = [hi |-> Half \div 2 - 1, lo |-> Half - 1]
    /\ kind = TALK_TYPE_GROUP
    /\ index = [hi |-> Half - 1, lo |-> Half - 1]
    /\ decNum = num

(***************************************************************************)
(* C strings of the command line.  A string is the sequence of its         *)
(* characters, each a one-character TLA+ string; a char* is a record that  *)
(* is either NULL or points at a string.                                   *)
(***************************************************************************)
NullPtr == [null |-> TRUE, s |-> <<>>]
Ptr(str) == [null |-> FALSE, s |-> str]

\* static const char *dem = " \t";
IsDelim(ch) == ch \in {" ", "\t"}

\* strpbrk(str, dem): the place of the first delimiter, 0 when there is none.
RECURSIVE Strpbrk(_, _)
Strpbrk(str, i) ==
    IF i > Len(str) THEN 0
    ELSE IF IsDelim(str[i]) THEN i
    ELSE Strpbrk(str, i + 1)

\* str + strspn(str, dem): str without its leading delimiters.
RECURSIVE SkipDelims(_)
SkipDelims(str) ==
    IF str # <<>> /\ IsDelim(str[1]) THEN SkipDelims(Tail(str)) ELSE str

\* poptok(&l): the token cut off the front of l, and l afterwards.
poptok(l) ==
    LET i == Strpbrk(l.s, 1)
    IN  IF i = 0 THEN [tok |-> l.s, l |-> NullPtr]
        ELSE [tok |-> SubSeq(l.s, 1, i - 1),
              l |-> Ptr(SkipDelims(SubSeq(l.s, i + 1, Len(l.s))))]

\* strtol's digits.
DigitValue(ch) ==
    CASE ch = "0" -> 0 [] ch = "1" -> 1 [] ch = "2" -> 2 [] ch = "3" -> 3
      [] ch = "4" -> 4 [] ch = "5" -> 5 [] ch = "6" -> 6 [] ch = "7" -> 7
      [] ch = "8" -> 8 [] ch = "9" -> 9 [] OTHER -> 0 - 1

\* The digits at the front of str, taken in base 10: their count and their
\* value modulo 2^32.  (A long holds any 18 digits, so for the tokens of the
\* model this is (uint32_t)l exactly.)
RECURSIVE LeadingDigits(_, _, _)
LeadingDigits(str, n, acc) ==
    IF str # <<>> /\ DigitValue(str[1]) >= 0
    THEN LeadingDigits(Tail(str), n + 1, U32MulAdd(acc, 10, DigitValue(str[1])))
    ELSE [n |-> n, val |-> acc]

\* bool str2uint(char *str, uint32_t *num): strtol skips white space, takes
\* an optional sign and the digits that follow, and stops at the first
\* character that is no digit.  ok is the return value, num is *num (left
\* as it was, here 0, when ok is false).
str2uint(str) ==
    LET body == SkipDelims(str)
        signed == body # <<>> /\ body[1] \in {"+", "-"}
        neg == signed /\ body[1] = "-"
        d == LeadingDigits(IF signed THEN Tail(body) ELSE body, 0, U32(0))
    IN  IF d.n = 0 \/ (neg /\ d.val # U32(0))
        THEN [ok |-> FALSE, num |-> U32(0)]
        ELSE [ok |-> TRUE, num |-> d.val]

(***************************************************************************)
(* struct Command commands[].                                              *)
(***************************************************************************)
COMMAND_ARGS_REST == 10

commands == <<
    [name |-> <<"g","u","i","d","e">>, narg |-> 0,
     handler |-> "command_guide"],
    [name |-> <<"h","e","l","p">>, narg |-> 0,
     handler |-> "command_help"],
    [name |-> <<"s","a","v","e">>, narg |-> 0,
     handler |-> "command_save"],
    [name |-> <<"i","n","f","o">>, narg |-> 0 + COMMAND_ARGS_REST,
     handler |-> "command_info"],
    [name |-> <<"s","e","t","n","a","m","e">>, narg |-> 1,
     handler |-> "command_setname"],
    [name |-> <<"s","e","t","s","t","m","s","g">>, narg |-> 1,
     handler |-> "command_setstmsg"],
    [name |-> <<"a","d","d">>, narg |-> 2,
     handler |-> "command_add"],
    [name |-> <<"d","e","l">>, narg |-> 1,
     handler |-> "command_del"],
    [name |-> <<"c","o","n","t","a","c","t","s">>, narg |-> 0,
     handler |-> "command_contacts"],
    [name |-> <<"g","o">>, narg |-> 0 + COMMAND_ARGS_REST,
     handler |-> "command_go"],
    [name |-> <<"h","i","s","t","o","r","y">>, narg |-> 0 + COMMAND_ARGS_REST,
     handler |-> "command_history"],
    [name |-> <<"a","c","c","e","p","t">>, narg |-> 0 + COMMAND_ARGS_REST,
     handler |-> "command_accept"],
    [name |-> <<"d","e","n","y">>, narg |-> 0 + COMMAND_ARGS_REST,
     handler |-> "command_deny"],
    [name |-> <<"i","n","v","i","t","e">>, narg |-> 1 + COMMAND_ARGS_REST,
     handler |-> "command_invite"],
    [name |-> <<"s","e","t","t","i","t","l","e">>, narg |-> 2,
     handler |-> "command_settitle"] >>

\* sizeof(commands)/sizeof(struct Command)
COMMAND_LENGTH == Len(commands)

\* A lookup that takes a prefix of a command's name for the name:
\* strncmp(commands[j].name, cmdname, strlen(cmdname)) == 0.
RECURSIVE FindCommand_Prefix(_, _)
FindCommand_Prefix(cmdname, j) ==
    IF j > COMMAND_LENGTH THEN 0
    ELSE IF /\ Len(cmdname) <= Len(commands[j].name)
            /\ SubSeq(commands[j].name, 1, Len(cmdname)) = cmdname
         THEN j
    ELSE FindCommand_Prefix(cmdname, j + 1)

\* for_2: the first j with strcmp(commands[j].name, cmdname) == 0 (counted
\* from 1), 0 when cmd stays NULL.
RECURSIVE FindCommand(_, _)
FindCommand(cmdname, j) ==
    IF j > COMMAND_LENGTH THEN 0
    ELSE IF commands[j].name = cmdname THEN j
    ELSE FindCommand(cmdname, j + 1)

\* The token loop of repl_iterate:
\*   for (; l != NULL && ntok != cmd->narg; ntok++)
\*       tokens[ntok] = (ntok == cmd->narg - 1) ? l : poptok(&l);
RECURSIVE TokenLoop(_, _, _)
TokenLoop(l, tokens, narg) ==
    IF l.null \/ Len(tokens) = narg THEN tokens
    ELSE IF Len(tokens) = narg - 1
         THEN TokenLoop(l, Append(tokens, l.s), narg)
    ELSE LET p == poptok(l)
         IN  TokenLoop(p.l, Append(tokens, p.tok), narg)

\* cmd->narg - (cmd->narg >= COMMAND_ARGS_REST ? COMMAND_ARGS_REST : 0)
MinimumArgs(narg) ==
    narg - (IF narg >= COMMAND_ARGS_REST THEN COMMAND_ARGS_REST ELSE 0)

(***************************************************************************)
(* The sessions: friends, groups, requests and TalkingTo, held in one      *)
(* record D while a handler or callback works on them.  A list is the      *)
(* sequence of its nodes, the head first.  Names, status messages,         *)
(* connection states and group peers are only printed and are left out.    *)
(***************************************************************************)
Sessions ==
    [friends |-> friends, groups |-> groups, requests |-> requests,
     TalkingTo |-> TalkingTo, tox_friends |-> toxFriends,
     tox_groups |-> toxGroups, prompt |-> prompt]

\* LIST_FIND(_p, _condition): the place of the first node that meets the
\* condition, 0 when *_p ends up NULL.  condition[i] tells whether the node
\* at place i meets it.
LIST_FIND(condition) ==
    LET hits == {i \in 1..Len(condition) : condition[i]}
    IN  IF hits = {} THEN 0 ELSE CHOOSE i \in hits : \A j \in hits : i <= j

\* An unlink that makes the list start after the node found:
\* requests = req->next.
Unlink_DropsFront(list, i) == SubSeq(list, i + 1, Len(list))

\* *p = node->next, for the node at place i.
Unlink(list, i) == SubSeq(list, 1, i - 1) \o SubSeq(list, i + 1, Len(list))

getfriend(D, friend_num) ==
    LIST_FIND([i \in 1..Len(D.friends) |->
                  D.friends[i].friend_num = friend_num])

addfriend(D, friend_num) ==
    [D EXCEPT !.friends = <<[friend_num |-> friend_num, hist |-> <<>>]>> \o @]

delfriend_KeepsNode(D, friend_num) == D

delfriend(D, friend_num) ==
    LET i == getfriend(D, friend_num)
    IN  IF i # 0 THEN [D EXCEPT !.friends = Unlink(@, i)] ELSE D

getgroup(D, group_num) ==
    LIST_FIND([i \in 1..Len(D.groups) |->
                  D.groups[i].group_num = group_num])

addgroup(D, group_num) ==
    [D EXCEPT !.groups =
        <<[group_num |-> group_num, title |-> NullPtr, hist |-> <<>>,
           peers_count |-> 0]>> \o @]

delgroup(D, group_num) ==
    LET i == getgroup(D, group_num)
    IN  IF i # 0 THEN [D EXCEPT !.groups = Unlink(@, i)] ELSE D

\* get_current_histp(): whose hist it points at, "null" for NULL.
get_current_histp(D) ==
    IF D.TalkingTo = TALK_TYPE_NULL THEN [of |-> "null", i |-> 0]
    ELSE IF INDEX_TO_TYPE(D.TalkingTo) = TALK_TYPE_FRIEND
         THEN LET i == getfriend(D, INDEX_TO_NUM(D.TalkingTo))
              IN  IF i # 0 THEN [of |-> "friend", i |-> i]
                  ELSE [of |-> "null", i |-> 0]
    ELSE LET i == getgroup(D, INDEX_TO_NUM(D.TalkingTo))
         IN  IF i # 0 THEN [of |-> "group", i |-> i]
             ELSE [of |-> "null", i |-> 0]

\* *hp
HistAt(D, hp) ==
    IF hp.of = "friend" THEN D.friends[hp.i].hist ELSE D.groups[hp.i].hist

\* genmsg(hp, ...): the new entry becomes the head of the list.
genmsg(D, hp, msg) ==
    IF hp.of = "friend"
    THEN [D EXCEPT !.friends[hp.i].hist = <<msg>> \o @]
    ELSE [D EXCEPT !.groups[hp.i].hist = <<msg>> \o @]

\* The calls that change what the backend holds: a call that succeeds
\* takes the number into the backend's table, or out of it.
tox_friend_add(D, friend_num) ==
    [D EXCEPT !.tox_friends = @ \cup {friend_num}]
tox_friend_delete(D, friend_num) ==
    [D EXCEPT !.tox_friends = @ \ {friend_num}]
tox_conference_new(D, group_num) ==
    [D EXCEPT !.tox_groups = @ \cup {group_num}]
tox_conference_delete(D, group_num) ==
    [D EXCEPT !.tox_groups = @ \ {group_num}]

\* init_friends(): addfriend for each entry of the backend's friend list.
RECURSIVE init_friends(_, _)
init_friends(D, friend_list) ==
    IF friend_list = <<>> THEN D
    ELSE init_friends(addfriend(D, Head(friend_list)), Tail(friend_list))

(***************************************************************************)
(* What a handler or callback leaves behind: the sessions, what it         *)
(* reported, what it sent and printed, how often it saved.  plausible is   *)
(* FALSE when the backend's answer is none it can give: a number for a new *)
(* session that it holds already, or an invitation that succeeds for a     *)
(* friend or a conference it does not hold.                                *)
(***************************************************************************)
Outcome(D, rep) ==
    [D |-> D, report |-> rep, sent |-> NoMessage, printed |-> <<>>,
     saves |-> 0, plausible |-> TRUE]

command_info(D, narg, args) ==
    IF narg = 0 THEN Outcome(D, <<>>)
    ELSE LET p == str2uint(args[1])
             n == INDEX_TO_NUM(p.num)
             found == IF INDEX_TO_TYPE(p.num) = TALK_TYPE_FRIEND
                      THEN getfriend(D, n) # 0 ELSE getgroup(D, n) # 0
         IN  IF p.ok /\ found THEN Outcome(D, <<>>)
             ELSE Outcome(D, <<"Invalid contact index">>)

\* self.name is only printed; what is kept is whether the backend refused.
command_setname(D, narg, args, b) ==
    IF ~b.ok THEN Outcome(D, <<"set name failed">>) ELSE Outcome(D, <<>>)

command_setstmsg(D, narg, args, b) ==
    IF ~b.ok THEN Outcome(D, <<"set status message failed">>)
    ELSE Outcome(D, <<>>)

command_add(D, narg, args, b) ==
    IF ~b.ok THEN Outcome(D, <<"add friend failed">>)
    ELSE [Outcome(addfriend(tox_friend_add(D, b.number), b.number), <<>>)
            EXCEPT !.plausible = (b.number \notin D.tox_friends)]

command_del(D, narg, args) ==
    LET p == str2uint(args[1])
        n == INDEX_TO_NUM(p.num)
    IN  IF p.ok /\ INDEX_TO_TYPE(p.num) = TALK_TYPE_FRIEND
             /\ getfriend(D, n) # 0
        THEN Outcome(tox_friend_delete(delfriend(D, n), n), <<>>)
        ELSE IF p.ok /\ INDEX_TO_TYPE(p.num) = TALK_TYPE_GROUP
                  /\ getgroup(D, n) # 0
        THEN Outcome(tox_conference_delete(delgroup(D, n), n), <<>>)
        ELSE Outcome(D, <<"Invalid contact index">>)

command_contacts(D, narg, args) == Outcome(D, <<>>)

\* update_savedata_file(): one more write of the save file.
update_savedata_file_Skipped(o) == o

update_savedata_file(o) == [o EXCEPT !.saves = @ + 1]

command_save(D, narg, args) == update_savedata_file(Outcome(D, <<>>))

command_go_StaysInSession(D, narg, args) ==
    IF narg = 0 THEN Outcome(D, <<>>)
    ELSE LET p == str2uint(args[1])
             n == INDEX_TO_NUM(p.num)
             found == IF INDEX_TO_TYPE(p.num) = TALK_TYPE_FRIEND
                      THEN getfriend(D, n) # 0 ELSE getgroup(D, n) # 0
         IN  IF p.ok /\ found
             THEN Outcome([D EXCEPT !.TalkingTo = p.num,
                                    !.prompt =
                                       IF INDEX_TO_TYPE(p.num) = TALK_TYPE_FRIEND
                                       THEN FRIEND_TALK_PROMPT(n)
                                       ELSE GROUP_TALK_PROMPT(n)], <<>>)
             ELSE Outcome(D, <<"Invalid contact index">>)

command_go(D, narg, args) ==
    IF narg = 0
    THEN Outcome([D EXCEPT !.TalkingTo = TALK_TYPE_NULL,
                           !.prompt = CMD_PROMPT], <<>>)
    ELSE LET p == str2uint(args[1])
             n == INDEX_TO_NUM(p.num)
             found == IF INDEX_TO_TYPE(p.num) = TALK_TYPE_FRIEND
                      THEN getfriend(D, n) # 0 ELSE getgroup(D, n) # 0
         IN  IF p.ok /\ found
             THEN Outcome([D EXCEPT !.TalkingTo = p.num,
                                    !.prompt =
                                       IF INDEX_TO_TYPE(p.num) = TALK_TYPE_FRIEND
                                       THEN FRIEND_TALK_PROMPT(n)
                                       ELSE GROUP_TALK_PROMPT(n)], <<>>)
             ELSE Outcome(D, <<"Invalid contact index">>)

\* #define DEFAULT_CHAT_HIST_COUNT 20
DEFAULT_CHAT_HIST_COUNT == 20

\* The first n entries from the oldest on, the oldest first:
\*   for (int i=0;i<n && hist; i++,hist=hist->prev)
HistoryFromOldest_NewestKept(hist, n) ==
    LET count == IF n.hi > 0 \/ n.lo >= Len(hist) THEN Len(hist) ELSE n.lo
    IN  [i \in 1..count |-> hist[count - i + 1]]

HistoryFromOldest(hist, n) ==
    LET count == IF n.hi > 0 \/ n.lo >= Len(hist) THEN Len(hist) ELSE n.lo
    IN  [i \in 1..count |-> hist[Len(hist) - i + 1]]

command_history(D, narg, args) ==
    LET p == IF narg > 0 THEN str2uint(args[1])
             ELSE [ok |-> TRUE, num |-> U32(DEFAULT_CHAT_HIST_COUNT)]
        n == IF p.ok THEN p.num ELSE U32(DEFAULT_CHAT_HIST_COUNT)
        warned == IF p.ok THEN <<>> ELSE <<"Invalid args">>
        hp == get_current_histp(D)
    IN  IF hp.of = "null"
        THEN Outcome(D, warned \o <<"you are not talking to someone">>)
        ELSE [Outcome(D, warned)
                EXCEPT !.printed = HistoryFromOldest(HistAt(D, hp), n)]

_command_accept_KeptOnFailure(D, narg, args, is_accept, b) ==
    IF narg = 0 THEN [Outcome(D, <<>>) EXCEPT !.printed = D.requests]
    ELSE
      LET p == str2uint(args[1])
          i == LIST_FIND([k \in 1..Len(D.requests) |->
                            U32(D.requests[k].id) = p.num])
          req == D.requests[i]
          D1 == [D EXCEPT !.requests = Unlink(@, i)]
      IN  IF ~p.ok \/ i = 0 THEN Outcome(D, <<"Invalid request index">>)
          ELSE IF ~is_accept THEN Outcome(D1, <<>>)
          ELSE IF req.is_friend_request
               THEN IF ~b.ok
                    THEN Outcome(D, <<"accept friend request failed">>)
                    ELSE [Outcome(addfriend(tox_friend_add(D1, b.number),
                                            b.number), <<>>)
                            EXCEPT !.plausible =
                                (b.number \notin D.tox_friends)]
          ELSE IF ~b.ok THEN Outcome(D, <<"join group failed">>)
               ELSE [Outcome(addgroup(tox_conference_new(D1, b.number),
                                      b.number), <<>>)
                       EXCEPT !.plausible = (b.number \notin D.tox_groups)]

_command_accept(D, narg, args, is_accept, b) ==
    IF narg = 0 THEN [Outcome(D, <<>>) EXCEPT !.printed = D.requests]
    ELSE
      LET p == str2uint(args[1])
          i == LIST_FIND([k \in 1..Len(D.requests) |->
                            U32(D.requests[k].id) = p.num])
          req == D.requests[i]
          D1 == [D EXCEPT !.requests = Unlink(@, i)]
      IN  IF ~p.ok \/ i = 0 THEN Outcome(D, <<"Invalid request index">>)
          ELSE IF ~is_accept THEN Outcome(D1, <<>>)
          ELSE IF req.is_friend_request
               THEN IF ~b.ok
                    THEN Outcome(D1, <<"accept friend request failed">>)
                    ELSE [Outcome(addfriend(tox_friend_add(D1, b.number),
                                            b.number), <<>>)
                            EXCEPT !.plausible =
                                (b.number \notin D.tox_friends)]
          ELSE IF ~b.ok THEN Outcome(D1, <<"join group failed">>)
               ELSE [Outcome(addgroup(tox_conference_new(D1, b.number),
                                      b.number), <<>>)
                       EXCEPT !.plausible = (b.number \notin D.tox_groups)]

command_accept(D, narg, args, b) == _command_accept(D, narg, args, TRUE, b)

command_deny(D, narg, args, b) == _command_accept(D, narg, args, FALSE, b)

command_invite(D, narg, args, b) ==
    LET f == str2uint(args[1])
        g == str2uint(args[2])
        D1 == addgroup(tox_conference_new(D, b.number), b.number)
        friend_num == INDEX_TO_NUM(f.num)
    IN  IF ~f.ok \/ INDEX_TO_TYPE(f.num) # TALK_TYPE_FRIEND
        THEN Outcome(D, <<"Invalid friend contact index">>)
        ELSE IF narg = 1
        THEN IF ~b.ok THEN Outcome(D, <<"Create group failed">>)
             ELSE [Outcome(D1, IF b.ok2 THEN <<>>
                               ELSE <<"Group invite failed">>)
                     EXCEPT !.plausible =
                         /\ b.number \notin D.tox_groups
                         /\ b.ok2 => friend_num \in D.tox_friends]
        ELSE IF ~g.ok \/ INDEX_TO_TYPE(g.num) # TALK_TYPE_GROUP
        THEN Outcome(D, <<"Invalid group contact index">>)
        ELSE [Outcome(D, IF b.ok2 THEN <<>> ELSE <<"Group invite failed">>)
                EXCEPT !.plausible =
                    b.ok2 => /\ friend_num \in D.tox_friends
                             /\ INDEX_TO_NUM(g.num) \in D.tox_groups]

command_settitle(D, narg, args, b) ==
    LET g == str2uint(args[1])
        i == getgroup(D, INDEX_TO_NUM(g.num))
    IN  IF ~g.ok \/ INDEX_TO_TYPE(g.num) # TALK_TYPE_GROUP \/ i = 0
        THEN Outcome(D, <<"Invalid group contact index">>)
        ELSE IF ~b.ok THEN Outcome(D, <<"Set group title failed">>)
        ELSE Outcome([D EXCEPT !.groups[i].title = Ptr(args[2])], <<>>)

\* command_guide and command_help only print.
command_guide(D, narg, args) == Outcome(D, <<>>)
command_help(D, narg, args) == Outcome(D, <<>>)

\* cmd->handler(ntok, tokens)
CallHandler(handler, D, narg, args, b) ==
    CASE handler = "command_guide"    -> command_guide(D, narg, args)
      [] handler = "command_help"     -> command_help(D, narg, args)
      [] handler = "command_save"     -> command_save(D, narg, args)
      [] handler = "command_info"     -> command_info(D, narg, args)
      [] handler = "command_setname"  -> command_setname(D, narg, args, b)
      [] handler = "command_setstmsg" -> command_setstmsg(D, narg, args, b)
      [] handler = "command_add"      -> command_add(D, narg, args, b)
      [] handler = "command_del"      -> command_del(D, narg, args)
      [] handler = "command_contacts" -> command_contacts(D, narg, args)
      [] handler = "command_go"       -> command_go(D, narg, args)
      [] handler = "command_history"  -> command_history(D, narg, args)
      [] handler = "command_accept"   -> command_accept(D, narg, args, b)
      [] handler = "command_deny"     -> command_deny(D, narg, args, b)
      [] handler = "command_invite"   -> command_invite(D, narg, args, b)
      [] handler = "command_settitle" -> command_settitle(D, narg, args, b)

(***************************************************************************)
(* repl_iterate, from the point where arepl_readline has returned non-zero *)
(* and the trailing newline is removed: ln is line[] at that point, b is   *)
(* what the backend answers to the calls the handler makes.                *)
(***************************************************************************)
repl_iterate(D, ln, b) ==
    LET done(o, handler) ==
            [D |-> o.D, report |-> o.report, sent |-> o.sent,
             printed |-> o.printed, saves |-> o.saves,
             plausible |-> o.plausible, invoked |-> handler,
             tokens |-> <<>>]
        invalid == done(Outcome(D, <<"Invalid command">>), "none")
    IN  IF D.TalkingTo # TALK_TYPE_NULL /\ (ln = <<>> \/ ln[1] # "/")
        THEN \* talking to someone: the line is a message
             LET hp == get_current_histp(D)
                 msg == [from |-> "self", text |-> ln]
                 to == IF INDEX_TO_TYPE(D.TalkingTo) = TALK_TYPE_FRIEND
                       THEN "friend" ELSE "group"
             IN  IF hp.of = "null"
                 THEN done(Outcome(D, <<"You are not talking to someone">>),
                           "none")
                 ELSE done([Outcome(genmsg(D, hp, msg), <<>>) EXCEPT
                              !.printed = <<msg>>,
                              !.sent = [to |-> to,
                                        number |-> INDEX_TO_NUM(D.TalkingTo),
                                        text |-> ln]],
                           "none")
        ELSE IF ln = <<>> THEN done(Outcome(D, <<>>), "none")
        ELSE IF ln[1] = "/"
        THEN LET c == poptok(Ptr(Tail(ln)))
                 j == FindCommand(c.tok, 1)
                 cmd == commands[j]
                 tokens == TokenLoop(c.l, <<>>, cmd.narg)
                 ntok == Len(tokens)
                 o == CallHandler(cmd.handler, D, ntok, tokens, b)
             IN  IF j = 0 THEN invalid
                 ELSE IF ntok < MinimumArgs(cmd.narg)
                 THEN [done(Outcome(D, <<"Wrong number of cmd args">>),
                            "none") EXCEPT !.tokens = tokens]
                 ELSE \* SAVEDATA_AFTER_COMMAND is true
                      [done(update_savedata_file(o), cmd.handler)
                         EXCEPT !.tokens = tokens]
        ELSE invalid

(***************************************************************************)
(* The callbacks that add a request.                                       *)
(***************************************************************************)
NextRequestId_AlwaysOne(D) == 1

\* req->id = 1 + ((requests != NULL) ? requests->id : 0);
NextRequestId(D) ==
    1 + (IF D.requests # <<>> THEN D.requests[1].id ELSE 0)

friend_request_cb(D, public_key, message) ==
    LET req == [id |-> NextRequestId(D), is_friend_request |-> TRUE,
                pubkey |-> public_key, friend_num |-> U32(0), cookie |-> "",
                msg |-> message]
    IN  [D EXCEPT !.requests = <<req>> \o @]

\* The invitation of a friend the list does not hold is dropped without a
\* word; one to an AV group is dropped with a warning.
group_invite_cb(D, friend_num, type, cookie) ==
    LET req == [id |-> NextRequestId(D), is_friend_request |-> FALSE,
                pubkey |-> "", friend_num |-> friend_num, cookie |-> cookie,
                msg |-> "From"]
    IN  IF getfriend(D, friend_num) = 0 THEN Outcome(D, <<>>)
        ELSE IF type = "TOX_CONFERENCE_TYPE_AV"
        THEN Outcome(D, <<"AV group not supported">>)
        ELSE Outcome([D EXCEPT !.requests = <<req>> \o @], <<>>)

\* A message of a friend goes into that friend's history; it is printed
\* when the friend is the one talked to.
friend_message_cb(D, friend_num, type, message) ==
    LET i == getfriend(D, friend_num)
        msg == [from |-> "guest", text |-> message]
    IN  IF i = 0 THEN Outcome(D, <<>>)
        ELSE IF type # "TOX_MESSAGE_TYPE_NORMAL" THEN Outcome(D, <<>>)
        ELSE [Outcome(genmsg(D, [of |-> "friend", i |-> i], msg), <<>>)
                EXCEPT !.printed =
                    IF GEN_INDEX(friend_num, TALK_TYPE_FRIEND) = D.TalkingTo
                    THEN <<msg>> ELSE <<>>]

\* A message of a group goes into that group's history, unless the peer is
\* ourselves (ours: what tox_conference_peer_number_is_ours answers) or is
\* not one of the peers the group is known to have.
group_message_cb_OwnEcho(D, group_num, peer_number, ours, type, message) ==
    LET i == getgroup(D, group_num)
        msg == [from |-> "guest", text |-> message]
    IN  IF i = 0 THEN Outcome(D, <<>>)
        ELSE IF type # "TOX_MESSAGE_TYPE_NORMAL" THEN Outcome(D, <<>>)
        ELSE IF peer_number >= D.groups[i].peers_count
        THEN Outcome(D, <<"Unknown peer_number">>)
        ELSE [Outcome(genmsg(D, [of |-> "group", i |-> i], msg), <<>>)
                EXCEPT !.printed =
                    IF GEN_INDEX(group_num, TALK_TYPE_GROUP) = D.TalkingTo
                    THEN <<msg>> ELSE <<>>]

group_message_cb(D, group_num, peer_number, ours, type, message) ==
    LET i == getgroup(D, group_num)
        msg == [from |-> "guest", text |-> message]
    IN  IF i = 0 THEN Outcome(D, <<>>)
        ELSE IF ours THEN Outcome(D, <<>>)
        ELSE IF type # "TOX_MESSAGE_TYPE_NORMAL" THEN Outcome(D, <<>>)
        ELSE IF peer_number >= D.groups[i].peers_count
        THEN Outcome(D, <<"Unknown peer_number">>)
        ELSE [Outcome(genmsg(D, [of |-> "group", i |-> i], msg), <<>>)
                EXCEPT !.printed =
                    IF GEN_INDEX(group_num, TALK_TYPE_GROUP) = D.TalkingTo
                    THEN <<msg>> ELSE <<>>]

\* The peers of a group have changed: count is what tox_conference_peer_count
\* answers, ok whether it answers without an error.
group_peer_list_changed_cb(D, group_num, count, ok) ==
    LET i == getgroup(D, group_num)
    IN  IF i = 0 THEN Outcome(D, <<>>)
        ELSE IF ~ok THEN Outcome(D, <<"get group peer count failed">>)
        ELSE Outcome([D EXCEPT !.groups[i].peers_count = count], <<>>)

(***************************************************************************)
(* SpecRepl: lines handed to repl_iterate and requests arriving from the   *)
(* backend, MaxSteps of them.                                              *)
(***************************************************************************)
MaxSteps == 4

\* The session numbers the backend uses.
BackendNums == {U32(0), U32(1)}

\* The friend lists the backend may hold at start.
SavedFriendLists == {<<>>, <<U32(0)>>, <<U32(1)>>, <<U32(0), U32(1)>>}

\* The backend's answers to a handler: whether its first and its second
\* call succeed, and the number of the session the first call makes.
Backend == [ok : BOOLEAN, ok2 : BOOLEAN, number : BackendNums]
NoAnswer == [ok |-> TRUE, ok2 |-> TRUE, number |-> U32(0)]

\* No message callback in this step.
NoEvent == [number |-> U32(0), peer_number |-> 0, ours |-> FALSE,
            type |-> "none", message |-> <<>>]

\* The lines typed.
Lines == {
    \* only print or save
    <<"/", "g", "u", "i", "d", "e">>,
    <<"/", "h", "e", "l", "p">>,
    <<"/", "s", "a", "v", "e">>,
    <<"/", "c", "o", "n", "t", "a", "c", "t", "s">>,
    <<"/", "i", "n", "f", "o">>,
    <<"/", "i", "n", "f", "o", " ", "0">>,
    <<"/", "h", "i", "s", "t", "o", "r", "y">>,
    <<"/", "h", "i", "s", "t", "o", "r", "y", " ", "1">>,
    <<"/", "h", "i", "s", "t", "o", "r", "y", " ", "x">>,
    \* setname, setstmsg
    <<"/", "s", "e", "t", "n", "a", "m", "e">>,
    <<"/", "s", "e", "t", "n", "a", "m", "e", " ">>,
    <<"/", "s", "e", "t", "n", "a", "m", "e", " ", "n">>,
    <<"/", "s", "e", "t", "s", "t", "m", "s", "g">>,
    <<"/", "s", "e", "t", "s", "t", "m", "s", "g", "\t">>,
    <<"/", "s", "e", "t", "s", "t", "m", "s", "g", " ", "s">>,
    \* add
    <<"/", "a", "d", "d">>,
    <<"/", "a", "d", "d", " ">>,
    <<"/", "a", "d", "d", " ", "k">>,
    <<"/", "a", "d", "d", " ", "k", " ">>,
    <<"/", "a", "d", "d", " ", "k", " ", "m">>,
    \* del
    <<"/", "d", "e", "l">>,
    <<"/", "d", "e", "l", " ">>,
    <<"/", "d", "e", "l", " ", "0">>,
    <<"/", "d", "e", "l", " ", "1">>,
    <<"/", "d", "e", "l", " ", "2">>,
    <<"/", "d", "e", "l", " ", "x">>,
    \* go
    <<"/", "g", "o">>,
    <<"/", "g", "o", " ">>,
    <<"/", "g", "o", " ", "0">>,
    <<"/", "g", "o", " ", "1">>,
    <<"/", "g", "o", " ", "2">>,
    <<"/", "g", "o", " ", "-", "1">>,
    <<"/", "g", "o", " ", "4", "2", "9", "4", "9", "6", "7", "2", "9", "6">>,
    \* accept, deny
    <<"/", "a", "c", "c", "e", "p", "t">>,
    <<"/", "a", "c", "c", "e", "p", "t", " ", "1">>,
    <<"/", "a", "c", "c", "e", "p", "t", " ", "2">>,
    <<"/", "a", "c", "c", "e", "p", "t", " ", "1", "x">>,
    <<"/", "d", "e", "n", "y">>,
    <<"/", "d", "e", "n", "y", " ", "1">>,
    <<"/", "d", "e", "n", "y", " ", "2">>,
    <<"/", "d", "e", "n", "y", " ", "3">>,
    \* invite
    <<"/", "i", "n", "v", "i", "t", "e">>,
    <<"/", "i", "n", "v", "i", "t", "e", " ">>,
    <<"/", "i", "n", "v", "i", "t", "e", " ", "0">>,
    <<"/", "i", "n", "v", "i", "t", "e", " ", "0", " ", "1">>,
    <<"/", "i", "n", "v", "i", "t", "e", " ", "1">>,
    \* settitle
    <<"/", "s", "e", "t", "t", "i", "t", "l", "e">>,
    <<"/", "s", "e", "t", "t", "i", "t", "l", "e", " ", "1">>,
    <<"/", "s", "e", "t", "t", "i", "t", "l", "e", " ", "1", " ">>,
    <<"/", "s", "e", "t", "t", "i", "t", "l", "e", " ", "1", " ", "t">>,
    <<"/", "s", "e", "t", "t", "i", "t", "l", "e", " ", "0", " ", "t">>,
    <<"/", "s", "e", "t", "t", "i", "t", "l", "e", " ", "3", " ",
      "M", "y", " ", "N", "e", "w", " ", "T", "i", "t", "l", "e">>,
    \* no command of the table
    <<"/">>,
    <<"/", "x">>,
    <<"/", "d", "e", " ", "0">>,
    <<"/", "g">>,
    <<"/", " ", "g", "o">>,
    <<"/", "G", "o">>,
    \* no leading '/'
    <<"h", "i">>,
    <<>>,
    <<"g", "o">>,
    <<" ", "/", "g", "o">> }

\* The answers that make a difference to the handler a line names: only
\* command_invite makes a second call, and only command_add, command_accept
\* and command_invite take a number from a call that succeeded.  A line
\* that is a message is sent with one call, which succeeds or fails.
Answers(D, ln) ==
    LET j == IF ln # <<>> /\ ln[1] = "/"
             THEN FindCommand(poptok(Ptr(Tail(ln))).tok, 1) ELSE 0
        handler == IF j # 0 THEN commands[j].handler ELSE "none"
    IN  IF /\ D.TalkingTo # TALK_TYPE_NULL
           /\ ln = <<>> \/ ln[1] # "/"
           /\ get_current_histp(D).of # "null"
        THEN {b \in Backend : b.ok2 /\ b.number = U32(0)}
        ELSE IF handler \in {"command_setname", "command_setstmsg", "command_add",
                        "command_accept", "command_invite", "command_settitle"}
        THEN {b \in Backend :
                /\ b.ok2 \/ handler = "command_invite"
                /\ \/ b.number = U32(0)
                   \/ b.ok /\ handler \in {"command_add", "command_accept",
                                            "command_invite"}}
        ELSE {NoAnswer}

InitRepl ==
    /\ IdleEditor
    /\ IdleIndex
    /\ InitGlobals
    /\ \E friend_list \in SavedFriendLists :
        /\ friends = init_friends([friends |-> <<>>], friend_list).friends
        /\ toxFriends = {friend_list[i] : i \in 1..Len(friend_list)}

Max(x, y) == IF x >= y THEN x ELSE y

\* What every step of SpecRepl does with the sessions and the counters.
Becomes(D) ==
    /\ friends' = D.friends
    /\ groups' = D.groups
    /\ requests' = D.requests
    /\ TalkingTo' = D.TalkingTo
    /\ prompt' = D.prompt
    /\ toxFriends' = D.tox_friends
    /\ toxGroups' = D.tox_groups
    /\ issued' = IF Len(D.requests) > Len(requests)
                 THEN Max(issued, D.requests[1].id) ELSE issued
    /\ steps' = steps + 1
    /\ UNCHANGED <<editorVars, refVars, indexVars, pushed, loopVars, chain>>

\* A round of main's loop may take a line or a callback while it has done
\* nothing yet.
Ready == event = "idle" /\ steps < MaxSteps

\* repl_iterate has a completed line.
CompletedLine ==
    /\ Ready
    /\ \E ln \in Lines :
      \E b \in Answers(Sessions, ln) :
        LET o == repl_iterate(Sessions, ln, b)
        IN  /\ o.plausible
            /\ Becomes(o.D)
            /\ event' = "line"
            /\ cmdline' = ln
            /\ report' = o.report
            /\ invoked' = o.invoked
            /\ saves' = o.saves
            /\ sent' = o.sent
            /\ printed' = o.printed
            /\ tokenized' = o.tokens
            /\ answer' = b
            /\ delivered' = NoEvent

\* tox_iterate calls friend_request_cb.
FriendRequest ==
    /\ Ready
    /\ Becomes(friend_request_cb(Sessions, "K", "m"))
    /\ event' = "friend_request_cb"
    /\ cmdline' = <<>>
    /\ report' = <<>>
    /\ invoked' = "none"
    /\ saves' = 0
    /\ sent' = NoMessage
    /\ printed' = <<>>
    /\ tokenized' = <<>>
    /\ answer' = NoAnswer
    /\ delivered' = NoEvent

\* tox_iterate calls group_invite_cb.
GroupInvite ==
    /\ Ready
    /\ \E friend_num \in BackendNums,
       type \in {"TOX_CONFERENCE_TYPE_TEXT", "TOX_CONFERENCE_TYPE_AV"} :
        LET o == group_invite_cb(Sessions, friend_num, type, "c")
        IN  /\ Becomes(o.D)
            /\ event' = "group_invite_cb"
            /\ cmdline' = <<>>
            /\ report' = o.report
            /\ invoked' = "none"
            /\ saves' = 0
            /\ sent' = NoMessage
            /\ printed' = <<>>
            /\ tokenized' = <<>>
            /\ answer' = NoAnswer
            /\ delivered' = NoEvent

\* usleep at the end of the round: the next round starts with nothing
\* reported, sent or printed.
Sleep ==
    /\ event # "idle"
    /\ event' = "idle"
    /\ cmdline' = <<>>
    /\ report' = <<>>
    /\ invoked' = "none"
    /\ saves' = 0
    /\ sent' = NoMessage
    /\ printed' = <<>>
    /\ tokenized' = <<>>
    /\ answer' = NoAnswer
    /\ delivered' = NoEvent
    /\ UNCHANGED <<sessionVars, issued, steps, pushed, backendVars, loopVars,
                   editorVars, refVars, indexVars, prompt, chain>>

NextRepl == CompletedLine \/ FriendRequest \/ GroupInvite \/ Sleep

SpecRepl == InitRepl /\ [][NextRepl]_vars

(***************************************************************************)
(* Claims about the command dispatcher and the request queue.              *)
(***************************************************************************)
\* A line that starts with '/': the name it gives (up to the first blank)
\* and the text after the name.
(***************************************************************************)
(* SpecHistory: two friends, messages typed to them and received from      *)
(* them, and the history read back, MaxTalk steps.  pushed records what    *)
(* genmsg was given, in the order of the calls.                            *)
(***************************************************************************)
MaxTalk == 5

TalkLines == {
    <<"/", "i", "n", "v", "i", "t", "e", " ", "0">>,
    <<"/", "g", "o", " ", "0">>,
    <<"/", "g", "o", " ", "1">>,
    <<"/", "g", "o", " ", "2">>,
    <<"h", "i">>,
    <<"g", "o">>,
    <<"/", "h", "i", "s", "t", "o", "r", "y">>,
    <<"/", "h", "i", "s", "t", "o", "r", "y", " ", "1">>,
    <<"/", "h", "i", "s", "t", "o", "r", "y", " ", "2">> }

InitHistory ==
    /\ IdleEditor
    /\ IdleIndex
    /\ InitGlobals
    /\ friends = init_friends([friends |-> <<>>], <<U32(0), U32(1)>>).friends
    /\ toxFriends = {U32(0), U32(1)}

\* What every step of SpecHistory does with the sessions and the counters;
\* no step of it adds a request.
Talks(D) ==
    /\ friends' = D.friends
    /\ groups' = D.groups
    /\ requests' = D.requests
    /\ TalkingTo' = D.TalkingTo
    /\ prompt' = D.prompt
    /\ toxFriends' = D.tox_friends
    /\ toxGroups' = D.tox_groups
    /\ steps' = steps + 1
    /\ UNCHANGED <<issued, loopVars, editorVars, refVars, indexVars, chain>>

\* repl_iterate has a completed line; a line that is a message is given to
\* genmsg for the session talked to.
TalkLine ==
    /\ event = "idle"
    /\ steps < MaxTalk
    /\ \E ln \in TalkLines :
        LET o == repl_iterate(Sessions, ln, NoAnswer)
        IN  /\ o.plausible
            /\ Talks(o.D)
            /\ pushed' = IF o.sent = NoMessage THEN pushed
                         ELSE Append(pushed, [to |-> TalkingTo,
                                              msg |-> o.printed[1]])
            /\ event' = "line"
            /\ cmdline' = ln
            /\ report' = o.report
            /\ invoked' = o.invoked
            /\ saves' = o.saves
            /\ sent' = o.sent
            /\ printed' = o.printed
            /\ tokenized' = o.tokens
            /\ answer' = NoAnswer
            /\ delivered' = NoEvent

\* tox_iterate calls friend_message_cb.
FriendMessage ==
    /\ event = "idle"
    /\ steps < MaxTalk
    /\ \E friend_num \in BackendNums,
          type \in {"TOX_MESSAGE_TYPE_NORMAL", "TOX_MESSAGE_TYPE_ACTION"} :
        LET o == friend_message_cb(Sessions, friend_num, type, <<"y", "o">>)
        IN  /\ Talks(o.D)
            /\ pushed' = IF o.D = Sessions THEN pushed
                         ELSE Append(pushed,
                                [to |-> GEN_INDEX(friend_num, TALK_TYPE_FRIEND),
                                 msg |-> [from |-> "guest",
                                          text |-> <<"y", "o">>]])
            /\ event' = "friend_message_cb"
            /\ cmdline' = <<>>
            /\ report' = <<>>
            /\ invoked' = "none"
            /\ saves' = 0
            /\ sent' = NoMessage
            /\ printed' = o.printed
            /\ tokenized' = <<>>
            /\ answer' = NoAnswer
            /\ delivered' = [number |-> friend_num, peer_number |-> 0,
                             ours |-> FALSE, type |-> type,
                             message |-> <<"y", "o">>]

\* The peers a group may be told to have, and the peer numbers a message
\* may come with.
MaxPeers == 2

\* tox_iterate calls group_peer_list_changed_cb.
GroupPeerListChanged ==
    /\ event = "idle"
    /\ steps < MaxTalk
    /\ \E group_num \in BackendNums, count \in 0..MaxPeers, ok \in BOOLEAN :
        LET o == group_peer_list_changed_cb(Sessions, group_num, count, ok)
        IN  /\ Talks(o.D)
            /\ event' = "group_peer_list_changed_cb"
            /\ cmdline' = <<>>
            /\ report' = o.report
            /\ invoked' = "none"
            /\ saves' = 0
            /\ sent' = NoMessage
            /\ printed' = <<>>
            /\ tokenized' = <<>>
            /\ answer' = NoAnswer
            /\ delivered' = NoEvent
            /\ UNCHANGED pushed

\* tox_iterate calls group_message_cb.
GroupMessage ==
    /\ event = "idle"
    /\ steps < MaxTalk
    /\ \E group_num \in BackendNums, peer_number \in 0..MaxPeers,
          ours \in BOOLEAN,
          type \in {"TOX_MESSAGE_TYPE_NORMAL", "TOX_MESSAGE_TYPE_ACTION"} :
        LET o == group_message_cb(Sessions, group_num, peer_number, ours,
                                  type, <<"y", "o">>)
        IN  /\ Talks(o.D)
            /\ pushed' = IF o.D = Sessions THEN pushed
                         ELSE Append(pushed,
                                [to |-> GEN_INDEX(group_num, TALK_TYPE_GROUP),
                                 msg |-> [from |-> "guest",
                                          text |-> <<"y", "o">>]])
            /\ event' = "group_message_cb"
            /\ cmdline' = <<>>
            /\ report' = o.report
            /\ invoked' = "none"
            /\ saves' = 0
            /\ sent' = NoMessage
            /\ printed' = o.printed
            /\ tokenized' = <<>>
            /\ answer' = NoAnswer
            /\ delivered' = [number |-> group_num,
                             peer_number |-> peer_number, ours |-> ours,
                             type |-> type, message |-> <<"y", "o">>]

NextHistory ==
    TalkLine \/ FriendMessage \/ GroupPeerListChanged \/ GroupMessage \/ Sleep

SpecHistory == InitHistory /\ [][NextHistory]_vars

(***************************************************************************)
(* SpecLoop: the loop of main.  A round is the test of msecs, with the     *)
(* call of repl_iterate when it is due, the call of tox_iterate, and the   *)
(* sleep for the interval the backend recommends, 1 to MaxInterval ms.     *)
(* What repl_iterate does with the bytes it reads is left to SpecEditor    *)
(* and SpecRepl; here it returns, after arepl_reprint, or calls exit(0).   *)
(***************************************************************************)
\* #define AREPL_INTERVAL  30
AREPL_INTERVAL == 30
MaxInterval == 3

InitLoop == IdleEditor /\ IdleIndex /\ IdleRepl

\* if (msecs >= AREPL_INTERVAL)
DrainDue_Late(m) == m >= AREPL_INTERVAL + AREPL_INTERVAL

DrainDue(m) == m >= AREPL_INTERVAL

LoopStep ==
    UNCHANGED <<sessionVars, outputVars, issued, steps, pushed, backendVars,
                prompt, chain, refVars, indexVars, line, nbuf, nstack, escaped, ub, ret,
                completed, dispatched, emitted>>

\* The test finds that repl_iterate is not due.
LoopSkip ==
    /\ ~exited /\ at = "check"
    /\ ~DrainDue(msecs)
    /\ at' = "iterate"
    /\ UNCHANGED <<msecs, iterated, drained, waited, exited>>
    /\ LoopStep

\* msecs = 0; repl_iterate(); and repl_iterate returns after arepl_reprint.
LoopDrain ==
    /\ ~exited /\ at = "check"
    /\ DrainDue(msecs)
    /\ msecs' = 0
    /\ drained' = TRUE
    /\ waited' = 0
    /\ at' = "iterate"
    /\ UNCHANGED <<iterated, exited>>
    /\ LoopStep

\* msecs = 0; repl_iterate(); and repl_iterate reads a C-d: exit(0).
LoopExit ==
    /\ ~exited /\ at = "check"
    /\ DrainDue(msecs)
    /\ msecs' = 0
    /\ exited' = TRUE
    /\ UNCHANGED <<at, iterated, drained, waited>>
    /\ LoopStep

\* tox_iterate(tox, NULL);
LoopIterate ==
    /\ ~exited /\ at = "iterate"
    /\ iterated' = iterated + 1
    /\ at' = "sleep"
    /\ UNCHANGED <<msecs, drained, waited, exited>>
    /\ LoopStep

\* v = tox_iteration_interval(tox); msecs += v; usleep(v * 1000); and the
\* next round begins.  msecs is below AREPL_INTERVAL + MaxInterval, far
\* from the end of uint32_t.
LoopSleep ==
    /\ ~exited /\ at = "sleep"
    /\ \E v \in 1..MaxInterval : msecs' = msecs + v
    /\ at' = "check"
    /\ iterated' = 0
    /\ drained' = FALSE
    /\ waited' = waited + 1
    /\ UNCHANGED exited
    /\ LoopStep

NextLoop == LoopSkip \/ LoopDrain \/ LoopExit \/ LoopIterate \/ LoopSleep

SpecLoop == InitLoop /\ [][NextLoop]_vars

\* while (1): the loop goes on as long as the program runs.
SpecLoopLive == InitLoop /\ [][NextLoop]_vars /\ WF_vars(NextLoop)

IsCommandLine(ln) == ln # <<>> /\ ln[1] = "/"
CommandName(ln) ==
    LET i == Strpbrk(Tail(ln), 1)
    IN  IF i = 0 THEN Tail(ln) ELSE SubSeq(Tail(ln), 1, i - 1)
ArgumentText(ln) ==
    LET i == Strpbrk(Tail(ln), 1)
    IN  IF i = 0 THEN <<>> ELSE SubSeq(Tail(ln), i, Len(ln) - 1)

\* The number of maximal runs of characters that are no blanks.
RunCount(str) ==
    Cardinality({i \in 1..Len(str) :
                    ~IsDelim(str[i]) /\ (i = 1 \/ IsDelim(str[i - 1]))})

InTable(name) == \E j \in 1..COMMAND_LENGTH : commands[j].name = name
EntryOf(name) ==
    commands[CHOOSE j \in 1..COMMAND_LENGTH : commands[j].name = name]

\* C7: when a committed line names a command of the table and holds fewer
\* argument tokens (maximal runs of non-blank characters after the name)
\* than the command's minimum, the wrong-number-of-arguments warning is
\* printed and no handler is called.
C7_BelowMinimumIsRefused ==
    ( /\ event = "line"
      /\ IsCommandLine(cmdline)
      /\ InTable(CommandName(cmdline))
      /\ RunCount(ArgumentText(cmdline))
            < MinimumArgs(EntryOf(CommandName(cmdline)).narg) )
    => (report = <<"Wrong number of cmd args">> /\ invoked = "none")

\* A line that names no command of the table, or, typed while talking to
\* nobody, a non-empty line without the leading '/'.
NamesNoCommand(ln, talking) ==
    \/ IsCommandLine(ln) /\ ~InTable(CommandName(ln))
    \/ talking = TALK_TYPE_NULL /\ ln # <<>> /\ ln[1] # "/"

\* C8: a committed line that names no command of the table (in command
\* mode also any non-empty line without '/') gets the invalid-command
\* error; no handler runs, nothing is saved or sent, and friends, groups,
\* histories, requests and TalkingTo stay as they were.
C8_UnknownCommandChangesNothing ==
    [][ (event' = "line" /\ NamesNoCommand(cmdline', TalkingTo))
        => /\ report' = <<"Invalid command">>
           /\ invoked' = "none"
           /\ saves' = 0
           /\ sent' = NoMessage
           /\ UNCHANGED sessionVars ]_vars

\* An unknown command answered while there are a friend with history, a
\* pending request and a session talked to.
C8_RefusedAmongSessions ==
    /\ event = "line"
    /\ IsCommandLine(cmdline)
    /\ report = <<"Invalid command">>
    /\ TalkingTo # TALK_TYPE_NULL
    /\ requests # <<>>
    /\ \E i \in 1..Len(friends) : friends[i].hist # <<>>

\* A step that adds a request.
Enqueues == Len(requests') > Len(requests)

\* C9: every request that is added gets an id above every id given out
\* before, also above the ids of requests that have left the queue.
C9_IdsNeverReused ==
    [][ Enqueues => requests'[1].id > issued ]_vars

\* "/accept k" and "/deny k" for a one-digit k.
DigitChar(k) ==
    CASE k = 1 -> "1" [] k = 2 -> "2" [] k = 3 -> "3" [] k = 4 -> "4"
      [] k = 5 -> "5" [] k = 6 -> "6" [] k = 7 -> "7" [] k = 8 -> "8"
      [] k = 9 -> "9"
AcceptOrDeny(k) ==
    { <<"/", "a", "c", "c", "e", "p", "t", " ", DigitChar(k)>>,
      <<"/", "d", "e", "n", "y", " ", DigitChar(k)>> }

\* C10: a request that arrives becomes the head of the queue with the id
\* of the old head plus one (1 for an empty queue); "/accept k" and
\* "/deny k" for a k in the queue take out the one entry with id k and
\* leave the other entries, their order, ids and payloads, as they were.
C10_QueueDiscipline ==
    [][ /\ Enqueues =>
            /\ Tail(requests') = requests
            /\ requests'[1].id =
                 (IF requests = <<>> THEN 1 ELSE requests[1].id + 1)
        /\ \A k \in 1..9 :
            ( /\ event' = "line"
              /\ cmdline' \in AcceptOrDeny(k)
              /\ \E i \in 1..Len(requests) : requests[i].id = k )
            => /\ requests' = SelectSeq(requests, LAMBDA r : r.id # k)
               /\ Len(requests') = Len(requests) - 1 ]_vars

\* The request in the middle of three has been denied.
C10_MiddleTakenOut ==
    /\ event = "line"
    /\ cmdline \in AcceptOrDeny(2)
    /\ Len(requests) = 2
    /\ requests[1].id = 3
    /\ requests[2].id = 1

\* C11: "/accept k" and "/deny k" for a k in the queue take the request
\* with id k out of the queue, whether the backend call succeeds or fails;
\* an accept whose backend call succeeded puts one new session with the
\* number the backend returned in front of the friends (friend request) or
\* of the groups (group invite); a failed accept and a deny add none.
C11_AcceptDenyAreFinal ==
    [][ \A k \in 1..9 :
          ( /\ event' = "line"
            /\ cmdline' \in AcceptOrDeny(k)
            /\ \E i \in 1..Len(requests) : requests[i].id = k )
          => LET req == requests[CHOOSE i \in 1..Len(requests) :
                                     requests[i].id = k]
                 accepted == cmdline'[2] = "a" /\ answer'.ok
             IN  /\ \A i \in 1..Len(requests') : requests'[i].id # k
                 /\ friends' =
                      (IF accepted /\ req.is_friend_request
                       THEN <<[friend_num |-> answer'.number,
                               hist |-> <<>>]>> \o friends
                       ELSE friends)
                 /\ groups' =
                      (IF accepted /\ ~req.is_friend_request
                       THEN <<[group_num |-> answer'.number,
                               title |-> NullPtr, hist |-> <<>>,
                               peers_count |-> 0]>> \o groups
                       ELSE groups) ]_vars

\* An accept the backend refused: the request is gone, a later one is
\* still waiting, and no friend has been added.
C11_RefusedAcceptIsGone ==
    /\ event = "line"
    /\ cmdline \in AcceptOrDeny(1)
    /\ report = <<"accept friend request failed">>
    /\ Len(requests) = 1
    /\ requests[1].id = 2
    /\ friends = <<>>

\* "/history", "/history 1", "/history 2": the number of entries asked for.
HistoryLine == <<"/", "h", "i", "s", "t", "o", "r", "y">>
EntriesAskedFor(ln) ==
    IF ln = HistoryLine THEN DEFAULT_CHAT_HIST_COUNT
    ELSE IF ln = HistoryLine \o <<" ", "1">> THEN 1
    ELSE IF ln = HistoryLine \o <<" ", "2">> THEN 2
    ELSE 0

\* The messages pushed to the session with index i, the first one first.
PushedTo(i) ==
    LET mine == SelectSeq(pushed, LAMBDA e : e.to = i)
    IN  [j \in 1..Len(mine) |-> mine[j].msg]

RunStarts(str) ==
    {i \in 1..Len(str) : ~IsDelim(str[i]) /\ (i = 1 \/ IsDelim(str[i - 1]))}
RunEnd(str, i) ==
    CHOOSE e \in i..Len(str) :
        /\ \A x \in i..e : ~IsDelim(str[x])
        /\ e = Len(str) \/ IsDelim(str[e + 1])
NthStart(str, j) ==
    CHOOSE i \in RunStarts(str) :
        Cardinality({x \in RunStarts(str) : x < i}) = j - 1

\* The tokens of str for a command of N arguments: the runs split at
\* blanks, but the N-th token is everything from the start of the N-th
\* run to the end of str.
SplitTokens(str, N) ==
    [j \in 1..Min(Cardinality(RunStarts(str)), N) |->
        IF j = N THEN SubSeq(str, NthStart(str, j), Len(str))
        ELSE SubSeq(str, NthStart(str, j), RunEnd(str, NthStart(str, j)))]

\* C13: for a committed line that names a command of the table with N
\* arguments, the tokens are the text after the name split at runs of
\* blanks and tabs, the N-th token taking the rest of the line as it is;
\* there are at most N tokens.
C13_TokensAsSplit ==
    ( /\ event = "line"
      /\ IsCommandLine(cmdline)
      /\ InTable(CommandName(cmdline)) )
    => /\ tokenized = SplitTokens(ArgumentText(cmdline),
                                  EntryOf(CommandName(cmdline)).narg)
       /\ Len(tokenized) <= EntryOf(CommandName(cmdline)).narg

\* The errors printed for a backend call that failed.
BackendFailures ==
    { <<"add friend failed">>, <<"accept friend request failed">>,
      <<"join group failed">>, <<"Create group failed">>,
      <<"Group invite failed">>, <<"Set group title failed">> }

\* C14: when a backend call of a command or of a chat send fails, an error
\* is printed and friends and groups, their histories included, are what
\* they were before the line was worked on.
C14_FailureChangesNothing ==
    [][ /\ (event' = "line" /\ report' \in BackendFailures)
            => (friends' = friends /\ groups' = groups)
        /\ (event' = "line" /\ sent' # NoMessage /\ ~answer'.ok)
            => /\ report' # <<>>
               /\ friends' = friends /\ groups' = groups ]_vars

\* A token that is a number: one digit or more and nothing else.
IsNumber(tok) ==
    tok # <<>> /\ \A i \in 1..Len(tok) : DigitValue(tok[i]) >= 0

\* The value of a token that is a number.
RECURSIVE NumberOf(_)
NumberOf(tok) ==
    IF tok = <<>> THEN 0
    ELSE 10 * NumberOf(SubSeq(tok, 1, Len(tok) - 1)) + DigitValue(tok[Len(tok)])

\* The contact index i names a friend or a group of the lists.
NamesSession(i) ==
    IF i % 2 = 0
    THEN \E j \in 1..Len(friends) : friends[j].friend_num = U32(i \div 2)
    ELSE \E j \in 1..Len(groups) : groups[j].group_num = U32(i \div 2)

\* The first two arguments of a command line, split at blanks.
ArgumentRun(ln, j) ==
    LET str == ArgumentText(ln)
    IN  SubSeq(str, NthStart(str, j), RunEnd(str, NthStart(str, j)))

\* The token is a number of at most nine digits (every index of a session
\* or request there is has fewer) that names a session, a friend, a group
\* or a request.
Indexes(tok) == IsNumber(tok) /\ Len(tok) <= 9
IndexesSession(tok) == Indexes(tok) /\ NamesSession(NumberOf(tok))
IndexesFriend(tok) == IndexesSession(tok) /\ NumberOf(tok) % 2 = 0
IndexesGroup(tok) == IndexesSession(tok) /\ NumberOf(tok) % 2 = 1
IndexesRequest(tok) ==
    Indexes(tok) /\ \E j \in 1..Len(requests) : requests[j].id = NumberOf(tok)

\* The line gives the command an index that is no number, or one that
\* names nothing there is: a session for go, info and del, a request for
\* accept and deny, a friend and then a group for invite, a group for
\* settitle.
BadIndex(ln) ==
    LET name == CommandName(ln)
        args == RunCount(ArgumentText(ln))
        first == ArgumentRun(ln, 1)
        second == ArgumentRun(ln, 2)
    IN  /\ IsCommandLine(ln)
        /\ args >= 1
        /\ \/ /\ name \in { <<"g", "o">>, <<"i", "n", "f", "o">>,
                             <<"d", "e", "l">> }
              /\ ~IndexesSession(first)
           \/ /\ name \in { <<"a", "c", "c", "e", "p", "t">>,
                             <<"d", "e", "n", "y">> }
              /\ ~IndexesRequest(first)
           \/ /\ name = <<"i", "n", "v", "i", "t", "e">>
              /\ ~IndexesFriend(first) \/ (args >= 2 /\ ~IndexesGroup(second))
           \/ /\ name = <<"s", "e", "t", "t", "i", "t", "l", "e">>
              /\ args >= 2
              /\ ~IndexesGroup(first)

\* C15: go, info, del, accept, deny, invite and settitle with an index
\* that is no number or names no session or request there is print an
\* error and leave friends, groups, histories, requests and TalkingTo as
\* they were.
C15_BadIndexChangesNothing ==
    [][ (event' = "line" /\ BadIndex(cmdline'))
        => (report' # <<>> /\ UNCHANGED sessionVars) ]_vars

\* A token that is no decimal number of 32 bits: not all digits, or more
\* than ten digits, or ten digits from 4294967296 on.
Malformed(tok) ==
    \/ ~IsNumber(tok)
    \/ Len(tok) > 10
    \/ /\ Len(tok) = 10
       /\ \/ NumberOf(SubSeq(tok, 1, 5)) > 42949
          \/ /\ NumberOf(SubSeq(tok, 1, 5)) = 42949
             /\ NumberOf(SubSeq(tok, 6, 10)) >= 67296

IndexCommands ==
    { <<"g", "o">>, <<"i", "n", "f", "o">>, <<"d", "e", "l">>,
      <<"a", "c", "c", "e", "p", "t">>, <<"d", "e", "n", "y">>,
      <<"i", "n", "v", "i", "t", "e">>,
      <<"s", "e", "t", "t", "i", "t", "l", "e">> }

InvalidIndexReports ==
    { <<"Invalid contact index">>, <<"Invalid request index">>,
      <<"Invalid friend contact index">>, <<"Invalid group contact index">> }

\* C16: a command that is called with an index argument that is not all
\* digits, or is 2^32 or more, reports the index as invalid.
C16_MalformedIndexRefused ==
    ( /\ event = "line"
      /\ IsCommandLine(cmdline)
      /\ invoked # "none"
      /\ CommandName(cmdline) \in IndexCommands
      /\ RunCount(ArgumentText(cmdline)) >= 1
      /\ Malformed(ArgumentRun(cmdline, 1)) )
    => report \in InvalidIndexReports

\* The byte given in this step is ch, and the two bytes given before it
\* were ESC and '['.
Typing(ch) == typed' = Append(typed, ch)
AfterEscapeBracket ==
    /\ Len(typed) >= 2
    /\ typed[Len(typed) - 1] = ESC
    /\ typed[Len(typed)] = BRACKET

\* C17: a 'C' or 'D' that comes right after ESC '[' takes back that '['
\* and moves the cursor one place right or left (or leaves it at the end
\* or start of the line), and the rest of the line stays; any other 'C' or
\* 'D' is inserted at the cursor.  (For lines that fit the buffer.)
C17_ArrowOnlyAfterEscapeBracket ==
    [][ \A ch \in {CHAR_C, CHAR_D} :
          (Typing(ch) /\ nbuf + nstack <= sz) =>
            LET before == Logical(AREPL)
                now == Logical(AREPL)'
                p == nbuf - 1
            IN  IF AfterEscapeBracket
                THEN /\ now = SubSeq(before, 1, p)
                               \o SubSeq(before, p + 2, Len(before))
                     /\ nbuf' = (IF ch = CHAR_D
                                 THEN (IF p > 0 THEN p - 1 ELSE p)
                                 ELSE (IF nstack > 0 THEN p + 1 ELSE p))
                ELSE nbuf + nstack < sz =>
                     /\ now = SubSeq(before, 1, nbuf) \o <<ch>>
                               \o SubSeq(before, nbuf + 1, Len(before))
                     /\ nbuf' = nbuf + 1 ]_vars

\* C18: no two friends of the list have the same friend number and no two
\* groups the same group number, whatever add, accept, invite and del have
\* done, when the backend gives no number that it holds already.
C18_NumbersDistinct ==
    /\ \A i, j \in 1..Len(friends) :
          friends[i].friend_num = friends[j].friend_num => i = j
    /\ \A i, j \in 1..Len(groups) :
          groups[i].group_num = groups[j].group_num => i = j

\* A friend added next to another one, and two groups.
C18_TwoOfEachKind ==
    /\ event = "line"
    /\ invoked = "command_add"
    /\ Len(friends) = 2
    /\ Len(groups) = 2

\* "/del i", "/go i" and "/info i" for an index i of one digit.
IndexChar(i) == CASE i = 0 -> "0" [] i = 1 -> "1" [] i = 2 -> "2" [] i = 3 -> "3"
DelLine(i) == <<"/", "d", "e", "l", " ", IndexChar(i)>>
GoLine(i) == <<"/", "g", "o", " ", IndexChar(i)>>
InfoLine(i) == <<"/", "i", "n", "f", "o", " ", IndexChar(i)>>

\* A friend and a group with the number n are both there.
BothKinds(n) ==
    /\ \E j \in 1..Len(friends) : friends[j].friend_num = U32(n)
    /\ \E j \in 1..Len(groups) : groups[j].group_num = U32(n)
FriendOf(n) ==
    friends[CHOOSE j \in 1..Len(friends) : friends[j].friend_num = U32(n)]
GroupOf(n) ==
    groups[CHOOSE j \in 1..Len(groups) : groups[j].group_num = U32(n)]

\* The first count entries of a history, the oldest first; hist has the
\* newest entry first.
OldestFirst(hist, count) ==
    [k \in 1..Min(count, Len(hist)) |-> hist[Len(hist) - k + 1]]

\* C19: with a friend n and a group n both there, del, go, info and
\* history with the index 2n act on the friend and leave the groups as
\* they are, and with the index 2n+1 act on the group and leave the
\* friends as they are.
C19_IndexSelectsKind ==
    [][ \A n \in 0..1 :
          (event' = "line" /\ BothKinds(n)) =>
            /\ cmdline' = DelLine(2 * n) =>
                  /\ friends' = SelectSeq(friends,
                                    LAMBDA f : f.friend_num # U32(n))
                  /\ groups' = groups
            /\ cmdline' = DelLine(2 * n + 1) =>
                  /\ groups' = SelectSeq(groups,
                                    LAMBDA g : g.group_num # U32(n))
                  /\ friends' = friends
            /\ cmdline' = GoLine(2 * n) =>
                  /\ TalkingTo' = U32(2 * n)
                  /\ friends' = friends /\ groups' = groups
            /\ cmdline' = GoLine(2 * n + 1) =>
                  /\ TalkingTo' = U32(2 * n + 1)
                  /\ friends' = friends /\ groups' = groups
            /\ cmdline' \in {InfoLine(2 * n), InfoLine(2 * n + 1)} =>
                  /\ report' = <<>>
                  /\ UNCHANGED sessionVars
            /\ (EntriesAskedFor(cmdline') > 0 /\ TalkingTo = U32(2 * n)) =>
                  /\ printed' = OldestFirst(FriendOf(n).hist,
                                            EntriesAskedFor(cmdline'))
                  /\ UNCHANGED sessionVars
            /\ (EntriesAskedFor(cmdline') > 0 /\ TalkingTo = U32(2 * n + 1)) =>
                  /\ printed' = OldestFirst(GroupOf(n).hist,
                                            EntriesAskedFor(cmdline'))
                  /\ UNCHANGED sessionVars ]_vars

\* The history of group 0 read while friend 0, whose history is empty, is
\* there as well.
C19_GroupHistoryRead ==
    /\ event = "line"
    /\ cmdline = HistoryLine
    /\ TalkingTo = U32(1)
    /\ BothKinds(0)
    /\ printed # <<>>
    /\ FriendOf(0).hist = <<>>

C22_ReprintShowsWholeLine ==
    [][ emitted' # <<>> =>
          /\ emitted' = <<"CODE_ERASE_LINE", "prompt">>
                          \o HeadBytes(AREPL) \o TailBytes(AREPL)
                          \o (IF nstack > 0 THEN <<[cursor_left |-> nstack]>>
                              ELSE <<>>)
          /\ UNCHANGED <<line, nbuf, nstack>> ]_vars

\* C23: when the byte C-d (0x04) is read, the process ends at once, in any
\* state: the editor does not see the byte (nbuf, nstack, the buffer and the
\* escape counter stay as they were), no line is completed or dispatched,
\* and no byte after it is processed (no step leaves a state in which the
\* process has exited).
C23_EndOfInputExits ==
    [][ /\ ~exited
        /\ (typed' # typed /\ typed'[Len(typed')] = CTRL_D)
              => /\ exited'
                 /\ UNCHANGED <<line, nbuf, nstack, escaped>>
                 /\ completed' = completed
                 /\ dispatched' = dispatched
                 /\ ret' = ret ]_vars

\* C-d in the middle of a line: two characters were typed and are in the
\* head, and the process has exited without a commit.
C23_ExitedInMidLine ==
    /\ exited
    /\ Len(typed) >= 3
    /\ typed[Len(typed)] = CTRL_D
    /\ nbuf = 2
    /\ ret = 0

\* The history of every session there is, by combined index.
Histories ==
    {[idx |-> GEN_INDEX(friends[j].friend_num, TALK_TYPE_FRIEND),
      hist |-> friends[j].hist] : j \in 1..Len(friends)}
      \cup {[idx |-> GEN_INDEX(groups[j].group_num, TALK_TYPE_GROUP),
             hist |-> groups[j].hist] : j \in 1..Len(groups)}

\* The line of this step is a message, not a command.
ChatText == cmdline' = <<>> \/ cmdline'[1] # "/"

\* C24: a line committed while TalkingTo is not TALK_TYPE_NULL and that
\* does not start with '/' pushes exactly one entry, the line, onto the
\* history of the session TalkingTo names, is sent once to the backend for
\* that session's kind and number, and runs no handler; one that starts with
\* '/' is taken as a command and pushes nothing onto any history.  While
\* TalkingTo is TALK_TYPE_NULL a non-empty line not starting with '/' is
\* reported as an invalid command.
C24_ChatLineIsPushedAndSent ==
    [][ event' = "line" =>
          /\ (TalkingTo # TALK_TYPE_NULL /\ ChatText) =>
                /\ \E e \in Histories :
                     /\ e.idx = TalkingTo
                     /\ Histories' =
                          (Histories \ {e}) \cup
                            {[e EXCEPT !.hist =
                                <<[from |-> "self", text |-> cmdline']>> \o @]}
                /\ sent' = [to |-> IF INDEX_TO_TYPE(TalkingTo) = TALK_TYPE_FRIEND
                                   THEN "friend" ELSE "group",
                            number |-> INDEX_TO_NUM(TalkingTo),
                            text |-> cmdline']
                /\ invoked' = "none"
          /\ (TalkingTo # TALK_TYPE_NULL /\ ~ChatText) =>
                /\ \A e \in Histories' : e \in Histories \/ e.hist = <<>>
                /\ sent' = NoMessage
          /\ (TalkingTo = TALK_TYPE_NULL /\ ChatText /\ cmdline' # <<>>) =>
                /\ report' = <<"Invalid command">>
                /\ UNCHANGED sessionVars ]_vars

C26_EmptyLineIgnored ==
    [][ (event' = "line" /\ cmdline' = <<>>) =>
          /\ invoked' = "none"
          /\ Histories' = Histories
          /\ sent' = NoMessage ]_vars

\* A message callback has run in this step.
MessageEvent == event' \in {"friend_message_cb", "group_message_cb"}

\* The combined index of the session the message of this step is for.
DeliveredTo ==
    GEN_INDEX(delivered'.number,
              IF event' = "friend_message_cb" THEN TALK_TYPE_FRIEND
              ELSE TALK_TYPE_GROUP)

\* The session the message is for gets the message as its newest entry, and
\* no other history changes.
OneEntryPushed ==
    \E e \in Histories :
        /\ e.idx = DeliveredTo
        /\ Histories' =
             (Histories \ {e}) \cup
               {[e EXCEPT !.hist =
                   <<[from |-> "guest", text |-> delivered'.message]>> \o @]}

\* The peers_count of the group the message is for.
PeersKnown ==
    LET g == {j \in 1..Len(groups) : groups[j].group_num = delivered'.number}
    IN  IF g = {} THEN 0 ELSE groups[CHOOSE j \in g : TRUE].peers_count

\* C27: a message event of the normal type from a friend of the list, or
\* from another peer of a group of the list, pushes exactly one entry onto
\* that session's history and changes no other history, not the requests
\* and not TalkingTo; an event for a friend or group not in the list, of
\* another type, or of a group for a peer that is ourselves pushes nothing.
C27_MessagePushesOneEntry ==
    [][ MessageEvent =>
          /\ UNCHANGED <<requests, TalkingTo>>
          /\ IF /\ \E e \in Histories : e.idx = DeliveredTo
                /\ delivered'.type = "TOX_MESSAGE_TYPE_NORMAL"
                /\ ~delivered'.ours
             THEN OneEntryPushed
             ELSE Histories' = Histories ]_vars

\* C27, amended: as above, but a group's message pushes an entry only when
\* its peer number is below the peers_count the group has in the list;
\* with a peer number not below it nothing is pushed.
C27_KnownPeerMessagePushesOneEntry ==
    [][ MessageEvent =>
          /\ UNCHANGED <<requests, TalkingTo>>
          /\ IF /\ \E e \in Histories : e.idx = DeliveredTo
                /\ delivered'.type = "TOX_MESSAGE_TYPE_NORMAL"
                /\ ~delivered'.ours
                /\ event' = "group_message_cb"
                     => delivered'.peer_number < PeersKnown
             THEN OneEntryPushed
             ELSE Histories' = Histories ]_vars

\* A message of peer 1 of a group has gone into the group's history while
\* a friend was talked to.
C27_GroupMessagePushed ==
    /\ event = "group_message_cb"
    /\ delivered.peer_number = 1
    /\ TalkingTo = U32(0)
    /\ \E j \in 1..Len(groups) :
          groups[j].hist = <<[from |-> "guest", text |-> delivered.message]>>

\* What is left of a head h once its trailing spaces and then its trailing
\* run of bytes other than the space are taken away.
WithoutLastWord(h) ==
    LET ends == {i \in 0..Len(h) : \A j \in (i + 1)..Len(h) : h[j] = SPACE}
        m == CHOOSE i \in ends : \A k \in ends : i <= k
        starts == {i \in 0..m : \A j \in (i + 1)..m : h[j] # SPACE}
        n == CHOOSE i \in starts : \A k \in starts : i <= k
    IN  SubSeq(h, 1, n)

\* C28: C-w takes from the end of the head first every trailing space and
\* then the longest trailing run of bytes that are not spaces; nbuf does not
\* go below 0, and nstack and the bytes of the tail stay as they are.
C28_DeleteWordLeft ==
    [][ KeyDeleteWord =>
          /\ HeadBytes(AREPL)' = WithoutLastWord(HeadBytes(AREPL))
          /\ nbuf' >= 0
          /\ nstack' = nstack
          /\ TailBytes(AREPL)' = TailBytes(AREPL) ]_vars

\* A word and the space after it have been left behind by the cursor, in
\* front of a tail of one byte.
C28_WordGoneBeforeTail ==
    /\ nbuf = 0
    /\ nstack = 1
    /\ line[0] = CHAR_C
    /\ line[1] = SPACE
    /\ ~ub

\* C29: in every reachable state TalkingTo is TALK_TYPE_NULL or the
\* combined index of a friend or group that is in its list.
C29_TalkingToNamesSession ==
    \/ TalkingTo = TALK_TYPE_NULL
    \/ \E e \in Histories : e.idx = TalkingTo

\* The editor after the three bytes ESC '[' ch.
AfterArrow(a, ch) == After(After(After(a, ESC), BRACKET), ch)

\* Same nbuf and nstack, same bytes in the head and in the tail.
SameHeadAndTail(x, y) ==
    /\ x.nbuf = y.nbuf
    /\ x.nstack = y.nstack
    /\ HeadBytes(x) = HeadBytes(y)
    /\ TailBytes(x) = TailBytes(y)
    /\ x.ub = y.ub

\* C30: in every reachable state of the editor the bytes ESC '[' 'D' have
\* the effect of C-b on nbuf, nstack and the bytes of head and tail, and
\* ESC '[' 'C' the effect of C-f.
C30_ArrowKeysAreMoves ==
    ~ub => /\ SameHeadAndTail(AfterArrow(AREPL, CHAR_D), After(AREPL, CTRL_B))
           /\ SameHeadAndTail(AfterArrow(AREPL, CHAR_C), After(AREPL, CTRL_F))

\* C31: the combined index of a friend or group with a number below 2^31
\* is never TALK_TYPE_NULL (so that TalkingTo is TALK_TYPE_NULL in command
\* mode only, and /go to a session there is does not end in command mode).
C31_IndexIsNeverSentinel ==
    (phase \in {"encoded", "decoded"} /\ BelowTwoTo31(num))
        => index # TALK_TYPE_NULL

\* C32: in every reachable state the ids of the requests go strictly down
\* from the head of the queue to its end, so no two requests have the same
\* id and an id given to accept or deny names at most one request.
C32_IdsStrictlyDecreasing ==
    /\ \A i \in 1..(Len(requests) - 1) : requests[i].id > requests[i + 1].id
    /\ \A i, j \in 1..Len(requests) :
          requests[i].id = requests[j].id => i = j

\* A request has arrived after an older one was taken out: the queue holds
\* the ids 3 and 2, and 1 is gone.
C32_ArrivalAfterRemoval ==
    /\ event \in {"friend_request_cb", "group_invite_cb"}
    /\ Len(requests) = 2
    /\ requests[1].id = 3
    /\ requests[2].id = 2

(***************************************************************************)
(* SpecChain: one history at the level of its links.  A node is a record   *)
(* of msg, next and prev; the address of a node is its place in nodes, the *)
(* order in which malloc gave them out, and 0 is NULL.  pushed records the *)
(* messages in the order genmsg was given them.                            *)
(***************************************************************************)
MaxEntries == 4

ChainTexts == {"x", "y", "z"}

genmsg_node_NoBackLink(list, text) ==
    LET h == Len(list.nodes) + 1
        linked == Append(list.nodes,
                         [msg |-> text, prev |-> 0, next |-> list.head])
    IN  [head |-> h, nodes |-> linked]

\* genmsg(pp, ...): h->prev = NULL; h->next = (*pp);
\* if (*pp) (*pp)->prev = h; *pp = h;
genmsg_node(list, text) ==
    LET h == Len(list.nodes) + 1
        linked == Append(list.nodes,
                         [msg |-> text, prev |-> 0, next |-> list.head])
    IN  [head |-> h,
         nodes |-> IF list.head # 0
                   THEN [linked EXCEPT ![list.head].prev = h]
                   ELSE linked]

\* while (hist && hist->next) hist = hist->next;
RECURSIVE WalkToLast(_, _)
WalkToLast(list, hist) ==
    IF hist # 0 /\ list.nodes[hist].next # 0
    THEN WalkToLast(list, list.nodes[hist].next)
    ELSE hist

\* for (int i=0;i<n && hist; i++,hist=hist->prev) printf("%s\n", hist->msg);
\* The nodes visited, with their addresses.
RECURSIVE WalkBack(_, _, _, _)
WalkBack(list, hist, i, n) ==
    IF i < n /\ hist # 0
    THEN <<[at |-> hist, msg |-> list.nodes[hist].msg]>>
           \o WalkBack(list, list.nodes[hist].prev, i + 1, n)
    ELSE <<>>

InitChain == IdleEditor /\ IdleIndex /\ IdleRepl

\* What the steps of SpecChain leave alone.
ChainStep ==
    UNCHANGED <<editorVars, refVars, indexVars, prompt, sessionVars, cmdline,
                report, invoked, saves, sent, tokenized, answer, delivered,
                issued, steps, backendVars, loopVars>>

\* A message is pushed onto the history.
ChainPush ==
    /\ Len(chain.nodes) < MaxEntries
    /\ \E text \in ChainTexts :
          /\ chain' = genmsg_node(chain, text)
          /\ pushed' = Append(pushed, [to |-> U32(0), msg |-> text])
    /\ event' = "genmsg"
    /\ printed' = <<>>
    /\ ChainStep

\* command_history without an argument walks the history.
ChainWalk ==
    /\ event' = "command_history"
    /\ printed' = WalkBack(chain, WalkToLast(chain, chain.head), 0,
                           DEFAULT_CHAT_HIST_COUNT)
    /\ UNCHANGED <<chain, pushed>>
    /\ ChainStep

NextChain == ChainPush \/ ChainWalk

SpecChain == InitChain /\ [][NextChain]_vars

\* C33: after any pushes the history is a well-formed doubly-linked list:
\* the prev of the head is null, and the prev of the successor of a node is
\* that node; the walk along next to the last node and back along prev to
\* the head visits every node exactly once, in the order of the pushes.
C33_HistoryWellLinked ==
    /\ chain.head # 0 => chain.nodes[chain.head].prev = 0
    /\ \A a \in 1..Len(chain.nodes) :
          chain.nodes[a].next # 0 => chain.nodes[chain.nodes[a].next].prev = a
    /\ event = "command_history" =>
          /\ [i \in 1..Len(printed) |-> printed[i].msg]
               = [i \in 1..Len(pushed) |-> pushed[i].msg]
          /\ \A i, j \in 1..Len(printed) :
                printed[i].at = printed[j].at => i = j
          /\ {printed[i].at : i \in 1..Len(printed)} = 1..Len(chain.nodes)

\* A history of three different messages has been walked.
C33_ThreeWalked ==
    /\ event = "command_history"
    /\ Len(printed) = 3
    /\ printed[1].msg # printed[2].msg
    /\ printed[2].msg # printed[3].msg
    /\ printed[1].msg # printed[3].msg

=============================================================================
